---- MODULE Spec2Model ----
(***************************************************************************)
(* A model of withhacks: the frame trace injector (frameutils.py), the     *)
(* code extractor, the name resolver, and the with-statement hacks built   *)
(* on them (__init__.py).                                                  *)
(***************************************************************************)
EXTENDS Integers, Sequences, FiniteSets, TLC

VARIABLES
    \* frameutils.py module state and the frames' hooks
    f_trace,               \* frame -> the frame's trace hook
    f_locals,              \* frame -> the frame's local bindings
    orig_trace_funcs,      \* _orig_trace_funcs: frame -> hook saved at injection
    injected_trace_funcs,  \* _injected_trace_funcs: frame -> list of callbacks
    sys_trace,             \* the global trace function (sys.gettrace())
    orig_sys_trace,        \* _orig_sys_trace
    \* observation of the injector: what was called, and when
    calls,                 \* log of callback invocations: [id, frame, firing]
    nfire,                 \* number of hook firings so far
    pending,               \* firing number -> [frame, ids injected before it]
    ninject,               \* number of inject_trace_func calls so far
    hook0,                 \* frame -> hook the frame had initially
    sys0,                  \* the global trace function initially
    \* one call of extract_code: its inputs, its position and its result
    ex,
    \* one call of _change_lookups: its inputs, its position and its result
    lk,
    \* one with-statement: the context frame, the hack object, the target
    fr,                    \* the context frame's code and execution state
    hack,                  \* the WithHack instance and its attributes
    ns,                    \* the namespace / keyspace target object
    \* two threads at work in the injector: the mutex and where each one is
    th

traceVars == <<f_trace, f_locals, orig_trace_funcs, injected_trace_funcs,
               sys_trace, orig_sys_trace, calls, nfire, pending, ninject,
               hook0, sys0>>

pureVars == <<ex, lk, th>>
withVars == <<fr, hack, ns>>

vars == <<traceVars, pureVars, withVars>>

----------------------------------------------------------------------------
(* Bounds *)

MaxInject == 3
MaxCode == 3
MaxLookups == 2
MaxBody == 2

\* the frames (suspended execution contexts) of the model
Frames == {"f1", "f2"}

----------------------------------------------------------------------------
(* Values *)

None == "None"
InvokeTraceFuncs == "_invoke_trace_funcs"
DummySysTrace == "_dummy_sys_trace"
UserTrace == "user_trace"
ExitContextExc == "_ExitContext"

EmptyMap == [n \in {} |-> None]

\* dict.update / d[k] = v
Merge(a, b) == [k \in (DOMAIN a) \cup (DOMAIN b) |->
                    IF k \in DOMAIN b THEN b[k] ELSE a[k]]
Put(d, k, v) == [x \in (DOMAIN d) \cup {k} |-> IF x = k THEN v ELSE d[x]]
\* del d[k] / d.pop(k)
Remove(d, k) == [x \in (DOMAIN d) \ {k} |-> d[x]]

----------------------------------------------------------------------------
(* The parts of the state a specification does not use stay as they are    *)
(* at import.                                                              *)

IdleTrace ==
    /\ f_trace = [f \in Frames |-> None]
    /\ sys_trace = None
    /\ hook0 = f_trace
    /\ sys0 = sys_trace
    /\ f_locals = [f \in Frames |-> EmptyMap]
    /\ orig_trace_funcs = EmptyMap
    /\ injected_trace_funcs = EmptyMap
    /\ orig_sys_trace = None
    /\ calls = <<>>
    /\ nfire = 0
    /\ pending = <<>>
    /\ ninject = 0

IdleThreads == th = [lock |-> None]

IdlePure ==
    /\ ex = [pc |-> "idle"]
    /\ lk = [pc |-> "idle"]
    /\ IdleThreads

IdleWith ==
    /\ fr = [status |-> "idle"]
    /\ hack = [state |-> "idle"]
    /\ ns = [kind |-> "idle"]

----------------------------------------------------------------------------
(* frameutils.py: the trace injector.  The operators work on a record t    *)
(* holding the state the injector reads and writes.                        *)

TraceState ==
    [f_trace |-> f_trace, f_locals |-> f_locals,
     orig_trace_funcs |-> orig_trace_funcs,
     injected_trace_funcs |-> injected_trace_funcs,
     sys_trace |-> sys_trace, orig_sys_trace |-> orig_sys_trace,
     calls |-> calls, nfire |-> nfire]

SetTraceState(t) ==
    /\ f_trace' = t.f_trace
    /\ f_locals' = t.f_locals
    /\ orig_trace_funcs' = t.orig_trace_funcs
    /\ injected_trace_funcs' = t.injected_trace_funcs
    /\ sys_trace' = t.sys_trace
    /\ orig_sys_trace' = t.orig_sys_trace
    /\ calls' = t.calls
    /\ nfire' = t.nfire

\* _enable_tracing
enable_tracing(t) ==
    LET t1 == [t EXCEPT !.orig_sys_trace = t.sys_trace]
    IN  IF t1.orig_sys_trace = None
        THEN [t1 EXCEPT !.sys_trace = DummySysTrace]
        ELSE t1

\* a _disable_tracing that forgets to look at _orig_sys_trace
disable_tracing_always(t) == [t EXCEPT !.sys_trace = None]

\* _disable_tracing
disable_tracing(t) ==
    IF t.orig_sys_trace = None THEN [t EXCEPT !.sys_trace = None] ELSE t

\* lines 60-65 of inject_trace_func, the part inside "with _trace_lock"
inject_setup(t, frame) ==
    IF t.f_trace[frame] # InvokeTraceFuncs
    THEN LET a == [t EXCEPT
                    !.orig_trace_funcs = Put(@, frame, t.f_trace[frame]),
                    !.f_trace[frame] = InvokeTraceFuncs,
                    !.injected_trace_funcs = Put(@, frame, <<>>)]
         IN  IF Cardinality(DOMAIN a.orig_trace_funcs) = 1
             THEN enable_tracing(a)
             ELSE a
    ELSE t

\* line 66, after the lock is released
inject_append(t, frame, func) ==
    [t EXCEPT !.injected_trace_funcs[frame] = Append(@, func)]

\* inject_trace_func(frame, func), run without interruption
inject_trace_func(t, frame, func) ==
    inject_append(inject_setup(t, frame), frame, func)

(* The callbacks.  A callback is [kind, id, locals, target]:               *)
(*   "exit_context"  _exit_context: raises _ExitContext                    *)
(*   "update"        the lambda of _set_context_locals: merges locals into *)
(*                   the frame's bindings                                  *)
(*   "reinject"      a callback that itself injects an update callback on  *)
(*                   frame target                                          *)
Callback(kind, id, locals, target) ==
    [kind |-> kind, id |-> id, locals |-> locals, target |-> target]

\* func(frame), as called at line 78; the result is the state and what it raised
CallFunc(t, func, frame) ==
    LET t0 == [t EXCEPT !.calls = Append(@, [id |-> func.id, kind |-> func.kind,
                                               frame |-> frame,
                                               firing |-> t.nfire])]
    IN  CASE func.kind = "exit_context" ->
                [t |-> t0, exc |-> ExitContextExc]
          [] func.kind = "update" ->
                [t |-> [t0 EXCEPT !.f_locals[frame] = Merge(@, func.locals)],
                 exc |-> None]
          [] OTHER ->
                [t |-> inject_trace_func(t0, func.target,
                          Callback("update", func.id + MaxInject, func.locals,
                                   func.target)),
                 exc |-> None]

\* the loop of lines 77-78: it reads the list as it stands at each step, so a
\* callback appended by a running callback is reached too; a raise ends it
RECURSIVE RunInjected(_, _, _)
RunInjected(t, frame, i) ==
    IF i > Len(t.injected_trace_funcs[frame])
    THEN [t |-> t, exc |-> None]
    ELSE LET r == CallFunc(t, t.injected_trace_funcs[frame][i], frame)
         IN  IF r.exc # None THEN r ELSE RunInjected(r.t, frame, i + 1)

\* lines 81-84, the part of the finally block inside "with _trace_lock"
invoke_restore(t, frame) ==
    LET t2 == IF Cardinality(DOMAIN t.orig_trace_funcs) = 1
              THEN disable_tracing(t) ELSE t
    IN  [t2 EXCEPT !.f_trace[frame] = t2.orig_trace_funcs[frame],
                   !.orig_trace_funcs = Remove(@, frame)]

\* the finally block: line 80, then lines 81-84
invoke_finally(r, frame) ==
    [t |-> invoke_restore([r.t EXCEPT !.injected_trace_funcs = Remove(@, frame)],
                          frame),
     exc |-> r.exc]

\* _invoke_trace_funcs(frame), run without interruption: the try block,
\* then the finally block
invoke_trace_funcs(t, frame) ==
    invoke_finally(RunInjected([t EXCEPT !.nfire = @ + 1], frame, 1), frame)

\* the engine calls a frame's hook only while tracing is globally enabled
HookFires(t, frame) ==
    /\ t.sys_trace # None
    /\ t.f_trace[frame] = InvokeTraceFuncs

IdsOf(funcs) == [i \in 1..Len(funcs) |-> funcs[i].id]

----------------------------------------------------------------------------
(* Instructions.  An element of an abstract instruction sequence is either *)
(* an instruction [op, arg] or a label (a jump target), which is no        *)
(* instruction: isinstance(b, bytecode.instr.BaseInstr) is false for it.   *)

Instr(op, arg) == [op |-> op, arg |-> arg]
Label(l) == [op |-> "<label>", arg |-> l]
IsInstr(b) == b.op # "<label>"

\* None where the code holds an offset or an index otherwise
NoneInt == -1

\* Python's s[a:b] on a sequence, a and b 0-based indices or None
Slice(s, a, b) ==
    LET lo == IF a = NoneInt THEN 0 ELSE a
        hi == IF b = NoneInt THEN Len(s) ELSE b
    IN  SubSeq(s, lo + 1, hi)

SetMax(S) == CHOOSE m \in S : \A x \in S : x <= m

----------------------------------------------------------------------------
(* frameutils.py: extract_code.  sizes is the size in bytes of each        *)
(* concrete instruction of the frame's code, bc the abstract form of the   *)
(* same code (the same instructions, with labels in between).              *)

RECURSIVE SumSizes(_, _)
SumSizes(sizes, j) == IF j = 0 THEN 0 ELSE SumSizes(sizes, j - 1) + sizes[j]

\* lines 101-110: the value of "at" after the j-th instruction is
\* SumSizes(sizes, j); the index counts the instructions with at < offset
ConcreteIndex(sizes, offset) ==
    Cardinality({j \in 1..Len(sizes) : SumSizes(sizes, j) < offset})

\* lines 117-124: the value of "at" when the loop looks at bc[i] (0-based i)
AtBefore(bc, i) == Cardinality({k \in 1..i : IsInstr(bc[k])})

\* lines 115-122: the last i with at == index, or None when there is none
BytecodeIndex(bc, index) ==
    LET hits == {i \in 0..(Len(bc) - 1) : AtBefore(bc, i) = index}
    IN  IF hits = {} THEN NoneInt ELSE SetMax(hits)

\* extract_code(frame, start, end) with frame.f_code given by sizes and bc
extract_code(sizes, bc, start, end) ==
    LET start_ == IF start = NoneInt THEN 0 ELSE start
        end_   == IF end = NoneInt THEN SumSizes(sizes, Len(sizes)) ELSE end
        start_c == ConcreteIndex(sizes, start_)
        end_c   == ConcreteIndex(sizes, end_)
        start_b == BytecodeIndex(bc, start_c)
        end_b   == BytecodeIndex(bc, end_c)
    IN  Slice(bc, start_b, end_b)

----------------------------------------------------------------------------
(* SpecExtract: extract_code on every small code object and offset pair.   *)

\* instruction sizes: one code unit, or two with an extended argument
InstrSizes == {2, 4}

SeqsUpTo(S, n) == UNION {[1..k -> S] : k \in 1..n}

\* the abstract form of a code of n instructions, a label before each
\* instruction whose index is in labelled
RECURSIVE AbstractOf(_, _)
AbstractOf(n, labelled) ==
    IF n = 0 THEN <<>>
    ELSE AbstractOf(n - 1, labelled)
           \o (IF n \in labelled THEN <<Label(n)>> ELSE <<>>)
           \o <<Instr("OP", n)>>

InstrsOf(bc) == SelectSeq(bc, IsInstr)

InitExtract ==
    /\ \E sizes \in SeqsUpTo(InstrSizes, MaxCode),
          labelled \in SUBSET (1..MaxCode) :
          /\ labelled \subseteq 1..Len(sizes)
          /\ ex = [pc |-> "start", sizes |-> sizes,
                   bc |-> AbstractOf(Len(sizes), labelled)]
    /\ lk = [pc |-> "idle"]
    /\ IdleThreads
    /\ IdleTrace
    /\ IdleWith

\* a caller calls extract_code(frame, start, end), either argument omitted
\* (None) or an offset
Extract(start, end) ==
    /\ ex.pc = "start"
    /\ ex' = [pc |-> "done", sizes |-> ex.sizes, bc |-> ex.bc,
              start |-> start, end |-> end,
              out |-> extract_code(ex.sizes, ex.bc, start, end)]
    /\ UNCHANGED <<traceVars, lk, th, withVars>>

Offsets == 0..(SumSizes(ex.sizes, Len(ex.sizes)))

NextExtract ==
    \E start \in Offsets \cup {NoneInt}, end \in Offsets \cup {NoneInt} :
        Extract(start, end)

SpecExtract == InitExtract /\ [][NextExtract]_vars

\* the number of instructions that end at or before the offset: the index
\* (0-based) of the instruction whose bytes enclose the offset
EnclosingIndex(sizes, offset) ==
    Cardinality({j \in 1..Len(sizes) : SumSizes(sizes, j) <= offset})

(* C6: extract_code returns exactly the instructions from the one that     *)
(* encloses start up to, not including, the one that encloses end, in      *)
(* order; an offset at an instruction's first byte maps to that            *)
(* instruction; with both omitted it returns the whole code.               *)
C6_ExtractEnclosing ==
    ex.pc = "done" =>
        LET whole == InstrsOf(ex.bc)
            lo == IF ex.start = NoneInt THEN 0
                  ELSE EnclosingIndex(ex.sizes, ex.start)
            hi == IF ex.end = NoneInt THEN Len(ex.sizes)
                  ELSE EnclosingIndex(ex.sizes, ex.end)
        IN  InstrsOf(ex.out) = SubSeq(whole, lo + 1, hi)

----------------------------------------------------------------------------
(* __init__.py: CaptureBytecode._change_lookups.                           *)

\* a _change_lookups that treats every existing local as a new one
change_lookup_no_locals(instr, args, locals) ==
    IF ~IsInstr(instr) THEN instr
    ELSE IF instr.op \in {"LOAD_FAST", "LOAD_DEREF", "LOAD_NAME", "LOAD_GLOBAL"}
    THEN IF instr.arg \in args
         THEN [instr EXCEPT !.op = "LOAD_FAST"]
         ELSE IF instr.op \in {"LOAD_FAST", "LOAD_DEREF"}
         THEN [instr EXCEPT !.op = "LOAD_FAST"]
         ELSE instr
    ELSE IF instr.op \in {"STORE_FAST", "STORE_DEREF", "STORE_NAME", "STORE_GLOBAL"}
    THEN IF instr.arg \in args
         THEN [instr EXCEPT !.op = "STORE_FAST"]
         ELSE IF instr.op \in {"STORE_FAST", "STORE_DEREF"}
         THEN [instr EXCEPT !.op = "STORE_FAST"]
         ELSE instr
    ELSE IF instr.op \in {"DELETE_FAST", "DELETE_NAME", "DELETE_GLOBAL"}
    THEN IF instr.arg \in args
         THEN [instr EXCEPT !.op = "DELETE_FAST"]
         ELSE IF instr.op \in {"DELETE_FAST"}
         THEN [instr EXCEPT !.op = "DELETE_FAST"]
         ELSE instr
    ELSE instr

\* the body of the loop of _change_lookups (lines 261-286) on one element
change_lookup(instr, args, locals) ==
    IF ~IsInstr(instr) THEN instr
    ELSE IF instr.op \in {"LOAD_FAST", "LOAD_DEREF", "LOAD_NAME", "LOAD_GLOBAL"}
    THEN IF instr.arg \in args
         THEN [instr EXCEPT !.op = "LOAD_FAST"]
         ELSE IF instr.op \in {"LOAD_FAST", "LOAD_DEREF"}
         THEN IF instr.arg \in locals
              THEN [instr EXCEPT !.op = "LOAD_NAME"]
              ELSE [instr EXCEPT !.op = "LOAD_FAST"]
         ELSE instr
    ELSE IF instr.op \in {"STORE_FAST", "STORE_DEREF", "STORE_NAME", "STORE_GLOBAL"}
    THEN IF instr.arg \in args
         THEN [instr EXCEPT !.op = "STORE_FAST"]
         ELSE IF instr.op \in {"STORE_FAST", "STORE_DEREF"}
         THEN IF instr.arg \in locals
              THEN [instr EXCEPT !.op = "STORE_NAME"]
              ELSE [instr EXCEPT !.op = "STORE_FAST"]
         ELSE instr
    ELSE IF instr.op \in {"DELETE_FAST", "DELETE_NAME", "DELETE_GLOBAL"}
    THEN IF instr.arg \in args
         THEN [instr EXCEPT !.op = "DELETE_FAST"]
         ELSE IF instr.op \in {"DELETE_FAST"}
         THEN IF instr.arg \in locals
              THEN [instr EXCEPT !.op = "DELETE_NAME"]
              ELSE [instr EXCEPT !.op = "DELETE_FAST"]
         ELSE instr
    ELSE instr

\* _change_lookups(code, args=..., locals=...): the code after the loop
change_lookups(code, args, locals) ==
    [i \in 1..Len(code) |-> change_lookup(code[i], args, locals)]

----------------------------------------------------------------------------
(* SpecLookups: _change_lookups on every short instruction sequence.       *)

LookupNames == {"x", "y"}

\* the variable-access instructions, by what they do and how they address
OpTable ==
    [LOAD   |-> [FAST |-> "LOAD_FAST", DEREF |-> "LOAD_DEREF",
                 NAME |-> "LOAD_NAME", GLOBAL |-> "LOAD_GLOBAL"],
     STORE  |-> [FAST |-> "STORE_FAST", DEREF |-> "STORE_DEREF",
                 NAME |-> "STORE_NAME", GLOBAL |-> "STORE_GLOBAL"],
     DELETE |-> [FAST |-> "DELETE_FAST", DEREF |-> "DELETE_DEREF",
                 NAME |-> "DELETE_NAME", GLOBAL |-> "DELETE_GLOBAL"]]
Accesses == {"LOAD", "STORE", "DELETE"}
Modes == {"FAST", "DEREF", "NAME", "GLOBAL"}
AccessOps == {OpTable[a][m] : a \in Accesses, m \in Modes}
AccessOf(op) == CHOOSE a \in Accesses : \E m \in Modes : OpTable[a][m] = op
ModeOf(op) == CHOOSE m \in Modes : \E a \in Accesses : OpTable[a][m] = op

LookupElems ==
    {Instr(op, n) : op \in AccessOps \cup {"LOAD_ATTR"}, n \in LookupNames}
        \cup {Instr("LOAD_CONST", "x"), Instr("POP_BLOCK", None), Label(1)}

InitLookups ==
    /\ \E code \in SeqsUpTo(LookupElems, MaxLookups),
          args \in SUBSET LookupNames, locals \in SUBSET LookupNames :
          lk = [pc |-> "start", code |-> code, args |-> args, locals |-> locals]
    /\ ex = [pc |-> "idle"]
    /\ IdleThreads
    /\ IdleTrace
    /\ IdleWith

\* a caller calls self._change_lookups(code, args=args, locals=locals)
ChangeLookups ==
    /\ lk.pc = "start"
    /\ lk' = [pc |-> "done", args |-> lk.args, locals |-> lk.locals,
              orig |-> lk.code,
              code |-> change_lookups(lk.code, lk.args, lk.locals)]
    /\ UNCHANGED <<traceVars, ex, th, withVars>>

NextLookups == ChangeLookups

SpecLookups == InitLookups /\ [][NextLookups]_vars

\* what stays as it was: the length, the labels, every argument, and every
\* instruction that is no variable access
LookupsKeepRest ==
    /\ Len(lk.code) = Len(lk.orig)
    /\ \A i \in 1..Len(lk.orig) :
          /\ lk.code[i].arg = lk.orig[i].arg
          /\ IsInstr(lk.code[i]) = IsInstr(lk.orig[i])
          /\ (~IsInstr(lk.orig[i]) \/ lk.orig[i].op \notin AccessOps) =>
                lk.code[i] = lk.orig[i]

\* the addressing the claim gives a variable access
ForcedMode(name) ==
    IF name \in lk.args THEN "FAST"
    ELSE IF name \in lk.locals THEN "NAME" ELSE "FAST"

Readdressed(op) ==
    \/ ModeOf(op) = "FAST"
    \/ ModeOf(op) = "DEREF" /\ AccessOf(op) # "DELETE"

----------------------------------------------------------------------------
(* The context frame.  Its code holds one with-statement, laid out as the  *)
(* engine compiles it (the markers the trimming of CaptureBytecode looks   *)
(* for are SETUP_WITH and POP_BLOCK):                                      *)
(*        CALL_FUNCTION        the expression that makes the hack          *)
(*        SETUP_WITH           calls __enter__, pushes its result          *)
(*        <as-clause>          STORE_FAST name, or POP_TOP                 *)
(*        <body>               one statement per line                      *)
(*        POP_BLOCK                                                        *)
(*        LOAD_CONST None                                                  *)
(*        WITH_CLEANUP_START   calls __exit__, also when the body raised   *)
(*        WITH_CLEANUP_FINISH                                              *)
(*        END_FINALLY                                                      *)
(*        LOAD_CONST None ; RETURN_VALUE    the line after the block       *)

Ctx == "f1"
HackObj == "hack"

\* every instruction of the frame's code is one code unit
WordSize == 2

\* the statements of a block body: n = v, n = m, del n, if c: n = v, raise
Assign(n, v) == [k |-> "assign", n |-> n, v |-> v]
Copy(n, m) == [k |-> "copy", n |-> n, v |-> m]
Del(n) == [k |-> "del", n |-> n, v |-> None]
IfAssign(n, v) == [k |-> "if", n |-> n, v |-> v]
Raise == [k |-> "raise", n |-> None, v |-> "ValueError"]
While == [k |-> "while", n |-> None, v |-> None]

\* the instructions of statement s, the j-th of the body
CompileStmt(s, j) ==
    CASE s.k = "assign" -> <<Instr("LOAD_CONST", s.v), Instr("STORE_FAST", s.n)>>
      [] s.k = "copy"   -> <<Instr("LOAD_FAST", s.v), Instr("STORE_FAST", s.n)>>
      [] s.k = "del"    -> <<Instr("DELETE_FAST", s.n)>>
      [] s.k = "if"     -> <<Instr("LOAD_FAST", "c"),
                             Instr("POP_JUMP_IF_FALSE", ToString(j)),
                             Instr("LOAD_CONST", s.v), Instr("STORE_FAST", s.n),
                             Label(ToString(j))>>
      [] s.k = "while"  -> <<Instr("SETUP_LOOP", ToString(j) \o "E"),
                             Label(ToString(j) \o "T"),
                             Instr("LOAD_FAST", "c"),
                             Instr("POP_JUMP_IF_FALSE", ToString(j) \o "B"),
                             Instr("JUMP_ABSOLUTE", ToString(j) \o "T"),
                             Label(ToString(j) \o "B"),
                             Instr("POP_BLOCK", None),
                             Label(ToString(j) \o "E")>>
      [] OTHER          -> <<Instr("LOAD_GLOBAL", s.v), Instr("RAISE_VARARGS", "1")>>

RECURSIVE CompileBody(_, _)
CompileBody(stmts, j) ==
    IF j = 0 THEN <<>>
    ELSE CompileBody(stmts, j - 1)
           \o [i \in 1..Len(CompileStmt(stmts[j], j)) |->
                  [item |-> CompileStmt(stmts[j], j)[i], line |-> j + 1]]

\* the frame's code for "with <hack> <as-clause>: <stmts>", with its line table
Program(as_clause, stmts) ==
    LET n    == Len(stmts)
        head == <<[item |-> Instr("CALL_FUNCTION", "0"), line |-> 1],
                  [item |-> Instr("SETUP_WITH", "L"), line |-> 1]>>
                  \o [i \in 1..Len(as_clause) |-> [item |-> as_clause[i], line |-> 1]]
        body == CompileBody(stmts, n)
        tail == <<[item |-> Instr("POP_BLOCK", None), line |-> n + 1],
                  [item |-> Instr("LOAD_CONST", None), line |-> n + 1],
                  [item |-> Instr("WITH_CLEANUP_START", None), line |-> n + 1],
                  [item |-> Instr("WITH_CLEANUP_FINISH", None), line |-> n + 1],
                  [item |-> Instr("END_FINALLY", None), line |-> n + 1],
                  [item |-> Instr("LOAD_CONST", None), line |-> n + 2],
                  [item |-> Instr("RETURN_VALUE", None), line |-> n + 2]>>
        all  == head \o body \o tail
    IN  [source |-> stmts,
         code |-> [i \in 1..Len(all) |-> all[i].item],
         lines |-> [i \in 1..Len(all) |-> all[i].line],
         body_lo |-> Len(head) + 1,
         body_hi |-> Len(head) + Len(body)]

IndexOfOp(code, op) == CHOOSE i \in 1..Len(code) : code[i].op = op
IndexOfLabel(code, l) == CHOOSE i \in 1..Len(code) : code[i] = Label(l)

\* the next instruction at or after position i (labels are no instructions)
RECURSIVE SkipLabels(_, _)
SkipLabels(code, i) ==
    IF i <= Len(code) /\ ~IsInstr(code[i]) THEN SkipLabels(code, i + 1) ELSE i

\* frame.f_lasti while the instruction at pc executes
f_lasti(frm) == WordSize * AtBefore(frm.code, frm.pc - 1)

ConcreteSizes(code) == [i \in 1..Len(InstrsOf(code)) |-> WordSize]

InBlock(frm, i) == IndexOfOp(frm.code, "SETUP_WITH") < i
                   /\ i < IndexOfOp(frm.code, "WITH_CLEANUP_START")
InBody(frm, i) == frm.body_lo <= i /\ i <= frm.body_hi

\* an exception raised while the frame is at pc: inside the with-block the
\* engine unwinds to WITH_CLEANUP_START, outside it leaves the frame
RaiseIn(frm, exc) ==
    IF InBlock(frm, frm.pc)
    THEN [frm EXCEPT !.exc = exc, !.stack = <<>>,
                     !.pc = IndexOfOp(frm.code, "WITH_CLEANUP_START")]
    ELSE [frm EXCEPT !.exc = exc, !.stack = <<>>, !.status = "raised"]

Push(frm, v) == [frm EXCEPT !.stack = <<v>> \o @]
Pop(frm) == [frm EXCEPT !.stack = Tail(@)]
Advance(frm) == [frm EXCEPT !.pc = SkipLabels(frm.code, frm.pc + 1)]

\* the engine executes the instruction at pc of the context frame
ExecInstr(frm, locals) ==
    LET ins == frm.code[frm.pc]
        f0  == [frm EXCEPT !.lastline = frm.lines[frm.pc],
                           !.executed = IF InBody(frm, frm.pc) THEN @ + 1 ELSE @]
        bad(exc) == [fr |-> RaiseIn([f0 EXCEPT !.body_exc = exc], exc),
                     locals |-> locals]
        ok(f)    == [fr |-> f, locals |-> locals]
    IN  CASE ins.op \in {"LOAD_CONST", "LOAD_GLOBAL"} ->
                ok(Advance(Push(f0, ins.arg)))
          [] ins.op = "LOAD_FAST" ->
                IF ins.arg \in DOMAIN locals
                THEN ok(Advance(Push(f0, locals[ins.arg])))
                ELSE bad("UnboundLocalError")
          [] ins.op = "STORE_FAST" ->
                [fr |-> Advance(Pop([f0 EXCEPT !.assigned =
                            IF InBody(frm, frm.pc) THEN @ \cup {ins.arg} ELSE @])),
                 locals |-> Put(locals, ins.arg, Head(f0.stack))]
          [] ins.op = "DELETE_FAST" ->
                IF ins.arg \in DOMAIN locals
                THEN [fr |-> Advance(f0), locals |-> Remove(locals, ins.arg)]
                ELSE bad("UnboundLocalError")
          [] ins.op = "POP_TOP" ->
                ok(Advance(Pop(f0)))
          [] ins.op = "POP_JUMP_IF_FALSE" ->
                IF Head(f0.stack) = "False"
                THEN ok([Pop(f0) EXCEPT !.pc =
                           SkipLabels(frm.code, IndexOfLabel(frm.code, ins.arg))])
                ELSE ok(Advance(Pop(f0)))
          [] ins.op = "JUMP_FORWARD" ->
                ok([f0 EXCEPT !.pc =
                      SkipLabels(frm.code, IndexOfLabel(frm.code, ins.arg))])
          [] ins.op = "STORE_ATTR" ->
                ok(Advance(Pop(Pop(f0))))
          [] ins.op = "RAISE_VARARGS" ->
                bad(Head(f0.stack))
          [] ins.op = "RETURN_VALUE" ->
                ok([f0 EXCEPT !.status = "returned"])
          [] OTHER ->
                ok(Advance(f0))

----------------------------------------------------------------------------
(* __init__.py: WithHack                                                   *)

\* the call stack seen from sys._getframe(2): depth frames of methods of the
\* hack (their local "self" is the hack), then the context frame, then its
\* caller
SelfOf(t, f) ==
    IF "self" \in DOMAIN t.f_locals[f] THEN t.f_locals[f]["self"] ELSE None

CallStack(t, depth) ==
    [i \in 1..depth |-> [frame |-> "method", self |-> HackObj]]
        \o <<[frame |-> Ctx, self |-> SelfOf(t, Ctx)],
             [frame |-> "f2", self |-> SelfOf(t, "f2")]>>

\* WithHack._get_context_frame: the cached frame, or the first frame of the
\* stack whose "self" is not the hack, which is then cached
get_context_frame(h, stack) ==
    IF h.frame # None THEN [frame |-> h.frame, h |-> h]
    ELSE LET i == CHOOSE k \in 1..Len(stack) :
                     /\ stack[k].self # HackObj
                     /\ \A m \in 1..(k - 1) : stack[m].self = HackObj
         IN  [frame |-> stack[i].frame, h |-> [h EXCEPT !.frame = stack[i].frame]]

\* a _set_context_locals that writes the bindings at once
set_context_locals_at_once(h, t, locals, depth) ==
    [h |-> get_context_frame(h, CallStack(t, depth)).h,
     t |-> [t EXCEPT !.f_locals[Ctx] = Merge(@, locals)]]

\* WithHack._set_context_locals(locals), called from a method at depth
set_context_locals(h, t, locals, depth) ==
    LET g == get_context_frame(h, CallStack(t, depth))
    IN  [h |-> g.h,
         t |-> inject_trace_func(t, g.frame, Callback("update", 2, locals, g.frame))]

\* a WithHack.__enter__ that skips the block whenever dont_execute is set
WithHack_enter_ignores_must(h, t, depth) ==
    IF h.dont_execute
    THEN LET g == get_context_frame(h, CallStack(t, depth))
         IN  [h |-> g.h,
              t |-> inject_trace_func(t, g.frame,
                        Callback("exit_context", 1, EmptyMap, g.frame))]
    ELSE [h |-> h, t |-> t]

\* WithHack.__enter__, called from the context (depth 0) or through super()
WithHack_enter(h, t, depth) ==
    IF h.dont_execute /\ ~h.must_execute
    THEN LET g == get_context_frame(h, CallStack(t, depth))
         IN  [h |-> g.h,
              t |-> inject_trace_func(t, g.frame,
                        Callback("exit_context", 1, EmptyMap, g.frame))]
    ELSE [h |-> h, t |-> t]

\* a WithHack.__exit__ that swallows whatever exception it is given
WithHack_exit_swallows_all(exc_type) == exc_type # None

\* a WithHack.__exit__ that swallows nothing
WithHack_exit_swallows_none(exc_type) == FALSE

\* WithHack.__exit__(exc_type, exc_value, traceback): its return value
WithHack_exit(exc_type) == exc_type = ExitContextExc

----------------------------------------------------------------------------
(* __init__.py: CaptureBytecode                                            *)

CaptureKinds == {"CaptureBytecode", "CaptureLocals", "CaptureOrderedLocals",
                 "xargs", "xkwargs", "namespace", "keyspace"}
LocalsKinds == {"CaptureLocals", "CaptureOrderedLocals", "xargs", "xkwargs"}

\* the instruction names of the model that start with "STORE"
StoreOps == {"STORE_FAST", "STORE_NAME", "STORE_GLOBAL", "STORE_DEREF",
             "STORE_ATTR", "STORE_SUBSCR"}

\* CaptureBytecode.__enter__
CaptureBytecode_enter(h, t, lasti) ==
    LET g == get_context_frame(h, CallStack(t, 0))
    IN  WithHack_enter([g.h EXCEPT !.bc_start = lasti], t, 1)

\* lines 176-178: drop up to and including SETUP_WITH; bc[0] of an empty
\* sequence raises IndexError
RECURSIVE StripSetup(_)
StripSetup(bc) ==
    IF bc = <<>> THEN [exc |-> "IndexError", bc |-> bc]
    ELSE IF ~IsInstr(bc[1]) \/ bc[1].op # "SETUP_WITH" THEN StripSetup(Tail(bc))
    ELSE [exc |-> None, bc |-> Tail(bc)]

\* lines 183-186: the number of elements the loop appends to as_clause;
\* instr.name of a label raises AttributeError
RECURSIVE AsClauseScan(_, _)
AsClauseScan(bc, i) ==
    IF i > Len(bc) THEN [exc |-> None, n |-> Len(bc)]
    ELSE IF ~IsInstr(bc[i]) THEN [exc |-> "AttributeError", n |-> i]
    ELSE IF bc[i].op \in StoreOps \/ bc[i].op = "POP_TOP" THEN [exc |-> None, n |-> i]
    ELSE AsClauseScan(bc, i + 1)

\* lines 191-193: drop from the end back to and including POP_BLOCK
RECURSIVE StripTeardown(_)
StripTeardown(bc) ==
    IF bc = <<>> THEN [exc |-> "IndexError", bc |-> bc]
    ELSE IF ~IsInstr(bc[Len(bc)]) \/ bc[Len(bc)].op # "POP_BLOCK"
    THEN StripTeardown(SubSeq(bc, 1, Len(bc) - 1))
    ELSE [exc |-> None, bc |-> SubSeq(bc, 1, Len(bc) - 1)]

\* lines 195-197: save the trimmed bytecode and return what the base
\* __exit__ returns
CaptureBytecode_save(h1, s2, exc_type) ==
    IF s2.exc # None THEN [exc |-> s2.exc, h |-> h1, ret |-> FALSE]
    ELSE [exc |-> None, ret |-> WithHack_exit(exc_type),
          h |-> [h1 EXCEPT !.bytecode = s2.bc,
                           !.exit_arg = exc_type,
                           !.base_ret = IF WithHack_exit(exc_type)
                                        THEN "True" ELSE "False"]]

\* lines 187-193: split off the as-clause found by the scan a, then trim;
\* with nothing to scan, i is unbound at line 187
CaptureBytecode_split(h0, bc, a, exc_type) ==
    IF a.exc # None THEN [exc |-> a.exc, h |-> h0, ret |-> FALSE]
    ELSE IF bc = <<>> THEN [exc |-> "UnboundLocalError", h |-> h0, ret |-> FALSE]
    ELSE CaptureBytecode_save([h0 EXCEPT !.as_clause = SubSeq(bc, 1, a.n)],
                              StripTeardown(SubSeq(bc, a.n + 1, Len(bc))),
                              exc_type)

\* lines 181-186, on the result s1 of the setup trimming
CaptureBytecode_scan(h0, s1, exc_type) ==
    IF s1.exc # None THEN [exc |-> s1.exc, h |-> h0, ret |-> FALSE]
    ELSE CaptureBytecode_split(h0, s1.bc, AsClauseScan(s1.bc, 1), exc_type)

\* lines 173-178, for the hack h0 that knows its context frame
CaptureBytecode_extract(h0, frm, exc_type) ==
    CaptureBytecode_scan(h0,
        StripSetup(extract_code(ConcreteSizes(frm.code), frm.code, h0.bc_start,
                                f_lasti(frm))),
        exc_type)

\* CaptureBytecode.__exit__(*args): the exception it raises or its return
\* value, and the hack with bytecode and _as_clause set
CaptureBytecode_exit(h, t, frm, exc_type) ==
    CaptureBytecode_extract(get_context_frame(h, CallStack(t, 0)).h, frm, exc_type)

----------------------------------------------------------------------------
(* __init__.py: CaptureLocals, CaptureOrderedLocals                        *)

\* self.locals as the list of its (name, value) pairs in insertion order
KeysOf(pairs) == {pairs[i][1] : i \in 1..Len(pairs)}
SetItem(pairs, k, v) ==
    IF k \in KeysOf(pairs)
    THEN [i \in 1..Len(pairs) |-> IF pairs[i][1] = k THEN <<k, v>> ELSE pairs[i]]
    ELSE Append(pairs, <<k, v>>)

\* lines 378-380: the loop over self.bytecode, from element i on
RECURSIVE CaptureLoop(_, _, _, _)
CaptureLoop(bytecode, i, flocals, acc) ==
    IF i > Len(bytecode) THEN [exc |-> None, locals |-> acc]
    ELSE IF ~IsInstr(bytecode[i]) THEN [exc |-> "AttributeError", locals |-> acc]
    ELSE IF bytecode[i].op \in {"STORE_FAST", "STORE_NAME"}
    THEN IF bytecode[i].arg \in DOMAIN flocals
         THEN CaptureLoop(bytecode, i + 1, flocals,
                          SetItem(acc, bytecode[i].arg, flocals[bytecode[i].arg]))
         ELSE [exc |-> "KeyError", locals |-> acc]
    ELSE CaptureLoop(bytecode, i + 1, flocals, acc)

\* lines 377-381, on the result r of the superclass __exit__ and the
\* result c of the loop
CaptureLocals_store(r, c) ==
    [exc |-> c.exc, ret |-> r.ret,
     h |-> [r.h EXCEPT !.locals = c.locals, !.has_locals = TRUE]]

CaptureLocals_capture(r, t) ==
    IF r.exc # None THEN r
    ELSE CaptureLocals_store(r,
             CaptureLoop(r.h.bytecode, 1, t.f_locals[r.h.frame], <<>>))

\* CaptureLocals.__exit__(*args)
CaptureLocals_exit(h, t, frm, exc_type) ==
    CaptureLocals_capture(CaptureBytecode_exit(h, t, frm, exc_type), t)

----------------------------------------------------------------------------
(* __init__.py: CaptureBytecode._run_as_clause, xargs, xkwargs             *)

\* exec(raw_code, frame.f_globals, frame.f_locals) of line 249: e is the
\* state of the run, with the f_locals dictionary it works on and the
\* stores it makes into objects.  The context has no module-level bindings
\* of its own here, so a name that is not in f_locals is not found.
AsPush(e, v) == [e EXCEPT !.stack = <<v>> \o @, !.pc = @ + 1]
AsFail(e, exc) == [e EXCEPT !.exc = exc, !.done = TRUE]

AsStep(e) ==
    LET ins == e.code[e.pc]
        st  == e.stack
    IN  CASE ins.op = "LOAD_CONST" -> AsPush(e, ins.arg)
          [] ins.op \in {"LOAD_NAME", "LOAD_GLOBAL"} ->
                IF ins.arg \in DOMAIN e.locals THEN AsPush(e, e.locals[ins.arg])
                ELSE AsFail(e, "NameError")
          [] ins.op = "LOAD_FAST" -> AsFail(e, "UnboundLocalError")
          [] ins.op = "LOAD_ATTR" ->
                AsPush([e EXCEPT !.stack = Tail(@)], st[1] \o "." \o ins.arg)
          [] ins.op = "UNPACK_SEQUENCE" -> AsFail(e, "TypeError")
          [] ins.op = "STORE_NAME" ->
                [e EXCEPT !.locals = Put(@, ins.arg, st[1]),
                          !.stack = Tail(@), !.pc = @ + 1]
          [] ins.op \in {"STORE_FAST", "POP_TOP"} ->
                [e EXCEPT !.stack = Tail(@), !.pc = @ + 1]
          [] ins.op = "STORE_ATTR" ->
                [e EXCEPT !.stores = Append(@, <<st[1], ins.arg, st[2]>>),
                          !.stack = Tail(Tail(@)), !.pc = @ + 1]
          [] ins.op = "STORE_SUBSCR" ->
                [e EXCEPT !.stores = Append(@, <<st[2], st[1], st[3]>>),
                          !.stack = Tail(Tail(Tail(@))), !.pc = @ + 1]
          [] ins.op = "RETURN_VALUE" -> [e EXCEPT !.done = TRUE]
          [] OTHER -> [e EXCEPT !.pc = @ + 1]

RECURSIVE AsRun(_)
AsRun(e) == IF e.done THEN e ELSE AsRun(AsStep(e))

\* lines 247-249, on the finished run e
as_clause_ran(h, t, frame, e) ==
    [exc |-> e.exc,
     h |-> [h EXCEPT !.as_exec = Append(@, e.code), !.as_stores = @ \o e.stores],
     t |-> [t EXCEPT !.f_locals[frame] = e.locals]]

\* lines 226-249, for the hack h that knows its context frame: the code
\* is value, the as-clause, return None, with its lookups changed
as_clause_exec(h, t, value) ==
    as_clause_ran(h, t, h.frame,
        AsRun([code |-> change_lookups(<<Instr("LOAD_CONST", value)>>
                                         \o h.as_clause
                                         \o <<Instr("LOAD_CONST", None),
                                              Instr("RETURN_VALUE", None)>>,
                                       {}, DOMAIN t.f_locals[h.frame]),
               pc |-> 1, stack |-> <<>>, locals |-> t.f_locals[h.frame],
               stores |-> <<>>, exc |-> None, done |-> FALSE]))

\* lines 210-218: the as-clause of one instruction
as_clause_single(h, t, value, depth) ==
    IF h.as_clause[1].op = "STORE_FAST"
    THEN [exc |-> None] @@
         set_context_locals(h, t, Put(EmptyMap, h.as_clause[1].arg, value),
                            depth + 1)
    ELSE [exc |-> None, h |-> h, t |-> t]

\* a _run_as_clause without the test of lines 221-222
run_as_clause_unchecked(h, t, value, depth) ==
    IF h.as_clause = <<>> THEN [exc |-> "AssertionError", h |-> h, t |-> t]
    ELSE IF Len(h.as_clause) = 1 /\ h.as_clause[1].op \in {"STORE_FAST", "POP_TOP"}
    THEN as_clause_single(h, t, value, depth)
    ELSE as_clause_exec(get_context_frame(h, CallStack(t, depth)).h, t, value)

\* CaptureBytecode._run_as_clause(value), called from a method at depth
run_as_clause(h, t, value, depth) ==
    IF h.as_clause = <<>> THEN [exc |-> "AssertionError", h |-> h, t |-> t]
    ELSE IF Len(h.as_clause) = 1 /\ h.as_clause[1].op \in {"STORE_FAST", "POP_TOP"}
    THEN as_clause_single(h, t, value, depth)
    ELSE IF \E i \in 1..Len(h.as_clause) : h.as_clause[i].op = "STORE_FAST"
    THEN [exc |-> "NotImplementedError", h |-> h, t |-> t]
    ELSE as_clause_exec(get_context_frame(h, CallStack(t, depth)).h, t, value)

ValuesOf(pairs) == [i \in 1..Len(pairs) |-> pairs[i][2]]

\* lines 475-476 / 508-509: the result goes through the as-clause
xargs_return(r, a) == [exc |-> a.exc, ret |-> r.ret, h |-> a.h, t |-> a.t]

\* lines 472-474 / 505-507: the call of the target callable with the
\* captured values (positionally, or by name), recorded in func_calls
xargs_call(r, h1, t) ==
    IF h1.func_raises
    THEN [exc |-> "FuncError", ret |-> FALSE, h |-> h1, t |-> t]
    ELSE xargs_return(r, run_as_clause(h1, t, "retval", 1))

xargs_args(r, t) ==
    IF r.exc # None THEN [exc |-> r.exc, ret |-> FALSE, h |-> r.h, t |-> t]
    ELSE xargs_call(r,
             [r.h EXCEPT !.func_calls =
                 Append(@, IF r.h.kind = "xargs" THEN ValuesOf(r.h.locals)
                           ELSE r.h.locals)],
             t)

\* xargs.__exit__ and xkwargs.__exit__
xargs_exit(h, t, frm, exc_type) ==
    xargs_args(CaptureLocals_exit(h, t, frm, exc_type), t)

----------------------------------------------------------------------------
(* frameutils.py: load_name                                                *)

\* a load_name that looks in f_globals before f_locals
load_name_globals_first(frm, locals, name) ==
    IF name \in DOMAIN frm.f_globals THEN [exc |-> None, value |-> frm.f_globals[name]]
    ELSE IF name \in DOMAIN locals THEN [exc |-> None, value |-> locals[name]]
    ELSE IF name \in DOMAIN frm.f_builtins
    THEN [exc |-> None, value |-> frm.f_builtins[name]]
    ELSE [exc |-> "NameError", value |-> None]

\* load_name(frame, name): f_locals, then f_globals, then f_builtins
load_name(frm, locals, name) ==
    IF name \in DOMAIN locals THEN [exc |-> None, value |-> locals[name]]
    ELSE IF name \in DOMAIN frm.f_globals
    THEN [exc |-> None, value |-> frm.f_globals[name]]
    ELSE IF name \in DOMAIN frm.f_builtins
    THEN [exc |-> None, value |-> frm.f_builtins[name]]
    ELSE [exc |-> "NameError", value |-> None]

----------------------------------------------------------------------------
(* __init__.py: namespace, keyspace                                        *)

NsArg == "_[namespace]"
NsValue == "_[ns_value]"
NsObj == "<namespace object>"
LoadNameFn == "<load_name>"

\* the keyword arguments _load, _store, _delete and _exc of _replace_opcode:
\* the defaults (namespace) and the ones keyspace passes
ns_load(kind, arg) ==
    IF kind = "keyspace"
    THEN <<Instr("LOAD_CONST", arg), Instr("BINARY_SUBSCR", None)>>
    ELSE <<Instr("LOAD_ATTR", arg)>>
ns_store(kind, arg) ==
    IF kind = "keyspace"
    THEN <<Instr("LOAD_CONST", arg), Instr("STORE_SUBSCR", None)>>
    ELSE <<Instr("STORE_ATTR", arg)>>
\* a _delete that drops the target and deletes nothing
ns_delete_nothing(kind, arg) == <<Instr("POP_TOP", None)>>
ns_delete(kind, arg) ==
    IF kind = "keyspace"
    THEN <<Instr("LOAD_CONST", arg), Instr("DELETE_SUBSCR", None)>>
    ELSE <<Instr("DELETE_ATTR", arg)>>
ns_exc(kind) == IF kind = "keyspace" THEN "KeyError" ELSE "AttributeError"

\* the three fresh labels of the replacement of the i-th instruction
NsLabel(i, which) == ToString(i) \o which

\* namespace._replace_opcode(instr, frame) for the i-th element of funcode;
\* <<>> stands for None.  The caller has checked that instr has a name.
replace_opcode(kind, instr, i) ==
    IF instr.op \in {"STORE_FAST", "STORE_NAME"}
    THEN <<Instr("LOAD_FAST", NsArg)>> \o ns_store(kind, instr.arg)
    ELSE IF instr.op \in {"DELETE_FAST", "DELETE_NAME"}
    THEN <<Instr("LOAD_FAST", NsArg)>> \o ns_delete(kind, instr.arg)
    ELSE IF instr.op \in {"LOAD_FAST", "LOAD_NAME", "LOAD_GLOBAL", "LOAD_DEREF"}
    THEN <<Instr("SETUP_EXCEPT", NsLabel(i, ".excIn")),
           Instr("LOAD_FAST", NsArg)>>
         \o ns_load(kind, instr.arg)
         \o <<Instr("STORE_FAST", NsValue),
              Instr("POP_BLOCK", None),
              Instr("JUMP_FORWARD", NsLabel(i, ".end")),
              Label(NsLabel(i, ".excIn")),
              Instr("DUP_TOP", None),
              Instr("LOAD_CONST", ns_exc(kind)),
              Instr("COMPARE_OP", "exception match"),
              Instr("POP_JUMP_IF_FALSE", NsLabel(i, ".excOut")),
              Instr("POP_TOP", None),
              Instr("POP_TOP", None),
              Instr("POP_TOP", None),
              Instr("LOAD_CONST", LoadNameFn),
              Instr("LOAD_CONST", Ctx),
              Instr("LOAD_CONST", instr.arg),
              Instr("CALL_FUNCTION", "2"),
              Instr("STORE_FAST", NsValue),
              Instr("POP_EXCEPT", None),
              Instr("JUMP_FORWARD", NsLabel(i, ".end")),
              Label(NsLabel(i, ".excOut")),
              Instr("END_FINALLY", None),
              Label(NsLabel(i, ".end")),
              Instr("LOAD_FAST", NsValue)>>
    ELSE <<>>

\* lines 559-563: the list to_replace, from element i of funcode on;
\* instr.name of a label raises AttributeError
RECURSIVE ToReplace(_, _, _, _)
ToReplace(kind, funcode, i, acc) ==
    IF i > Len(funcode) THEN [exc |-> None, list |-> acc]
    ELSE IF ~IsInstr(funcode[i]) THEN [exc |-> "AttributeError", list |-> acc]
    ELSE IF replace_opcode(kind, funcode[i], i) # <<>>
    THEN ToReplace(kind, funcode, i + 1,
                   Append(acc, [i |-> i, repl |-> replace_opcode(kind, funcode[i], i)]))
    ELSE ToReplace(kind, funcode, i + 1, acc)

\* lines 564-567: funcode[i+offset:i+offset+1] = repl for each entry in turn
RECURSIVE SpliceAll(_, _, _, _)
SpliceAll(funcode, list, k, offset) ==
    IF k > Len(list) THEN funcode
    ELSE SpliceAll(SubSeq(funcode, 1, list[k].i + offset - 1)
                     \o list[k].repl
                     \o SubSeq(funcode, list[k].i + offset + 1, Len(funcode)),
                   list, k + 1, offset + Len(list[k].repl) - 1)

----------------------------------------------------------------------------
(* The call func(self.namespace) of line 575: the rewritten bytecode run   *)
(* as a function of one argument.  m is the state of the call: code, pc,   *)
(* value stack (top first), block stack (top first), the function's own    *)
(* locals, the attributes or keys of the target, and what has happened.    *)

NewCall(funcode, target, fails) ==
    [code |-> funcode, pc |-> 1, stack |-> <<>>, blocks |-> <<>>,
     locals |-> Put(EmptyMap, NsArg, NsObj), target |-> target, fails |-> fails,
     done |-> FALSE, exc |-> None, reads |-> <<>>, lookups |-> <<>>]

MPush(m, v) == [m EXCEPT !.stack = <<v>> \o @, !.pc = @ + 1]
MPop(m, n) == [m EXCEPT !.stack = SubSeq(@, n + 1, Len(@)), !.pc = @ + 1]
MJump(m, l) == [m EXCEPT !.pc = IndexOfLabel(m.code, l)]
KeepBottom(stack, n) == SubSeq(stack, Len(stack) - n + 1, Len(stack))

\* an exception of type exc is raised at pc: the innermost try block takes
\* it (the value stack is cut back, the old and the new exception state are
\* pushed, type on top), blocks of handlers are dropped, and without a try
\* block the exception leaves the function
RECURSIVE MRaise(_, _)
MRaise(m, exc) ==
    IF m.blocks = <<>> THEN [m EXCEPT !.done = TRUE, !.exc = exc]
    ELSE IF Head(m.blocks).kind = "except-handler"
    THEN MRaise([m EXCEPT !.blocks = Tail(@)], exc)
    ELSE [m EXCEPT !.stack = <<exc, "<value>", "<traceback>", None, None, None>>
                               \o KeepBottom(@, Head(m.blocks).level),
                   !.blocks = <<[kind |-> "except-handler", handler |-> None,
                                 level |-> Head(m.blocks).level]>> \o Tail(@),
                   !.pc = IndexOfLabel(m.code, Head(m.blocks).handler)]

\* getattr(target, name) / target[name]
TargetLoad(m, name, missing) ==
    IF name \in m.fails THEN MRaise(m, "TargetError")
    ELSE IF name \in DOMAIN m.target THEN MPush(m, m.target[name])
    ELSE MRaise(m, missing)

TargetDelete(m, name, missing) ==
    IF name \in DOMAIN m.target
    THEN [m EXCEPT !.target = Remove(@, name), !.pc = @ + 1]
    ELSE MRaise(m, missing)

\* the call load_name(frame, name) made by the rewritten code
CallLoadName(m, frm, locals, name) ==
    IF load_name(frm, locals, name).exc # None
    THEN MRaise([m EXCEPT !.lookups = Append(@, name)],
                load_name(frm, locals, name).exc)
    ELSE MPush([m EXCEPT !.lookups = Append(@, name)],
               load_name(frm, locals, name).value)

\* one instruction of the call; frm and locals are the context frame and
\* its f_locals, which load_name consults
MStep(m, frm, locals) ==
    LET ins == m.code[m.pc]
        st  == m.stack
        m0  == [m EXCEPT !.stack = Tail(@)]
        m1  == [m EXCEPT !.stack = Tail(Tail(@))]
    IN  CASE ins.op = "<label>" -> [m EXCEPT !.pc = @ + 1]
          [] ins.op = "LOAD_CONST" -> MPush(m, ins.arg)
          [] ins.op = "LOAD_FAST" ->
                IF ins.arg \in DOMAIN m.locals THEN MPush(m, m.locals[ins.arg])
                ELSE MRaise(m, "UnboundLocalError")
          [] ins.op = "STORE_FAST" ->
                [MPop(m, 1) EXCEPT !.locals = Put(@, ins.arg, st[1]),
                                   !.reads = IF ins.arg = NsValue
                                             THEN Append(@, st[1]) ELSE @]
          [] ins.op = "DELETE_FAST" ->
                IF ins.arg \in DOMAIN m.locals
                THEN [m EXCEPT !.locals = Remove(@, ins.arg), !.pc = @ + 1]
                ELSE MRaise(m, "UnboundLocalError")
          [] ins.op = "LOAD_ATTR" -> TargetLoad(m0, ins.arg, "AttributeError")
          [] ins.op = "BINARY_SUBSCR" -> TargetLoad(m1, st[1], "KeyError")
          [] ins.op = "STORE_ATTR" ->
                [MPop(m, 2) EXCEPT !.target = Put(@, ins.arg, st[2])]
          [] ins.op = "STORE_SUBSCR" ->
                [MPop(m, 3) EXCEPT !.target = Put(@, st[1], st[3])]
          [] ins.op = "DELETE_ATTR" -> TargetDelete(m0, ins.arg, "AttributeError")
          [] ins.op = "DELETE_SUBSCR" -> TargetDelete(m1, st[1], "KeyError")
          [] ins.op = "SETUP_EXCEPT" ->
                [m EXCEPT !.blocks = <<[kind |-> "try", handler |-> ins.arg,
                                        level |-> Len(st)]>> \o @,
                          !.pc = @ + 1]
          [] ins.op = "POP_BLOCK" -> [m EXCEPT !.blocks = Tail(@), !.pc = @ + 1]
          [] ins.op = "JUMP_FORWARD" -> MJump(m, ins.arg)
          [] ins.op = "DUP_TOP" -> MPush(m, st[1])
          [] ins.op = "COMPARE_OP" ->
                MPush(m1, IF st[2] = st[1] THEN "True" ELSE "False")
          [] ins.op = "POP_JUMP_IF_FALSE" ->
                IF st[1] = "False" THEN MJump(m0, ins.arg) ELSE MPop(m, 1)
          [] ins.op = "POP_TOP" -> MPop(m, 1)
          [] ins.op = "CALL_FUNCTION" ->
                CallLoadName([m EXCEPT !.stack = SubSeq(@, 4, Len(@))],
                             frm, locals, st[1])
          [] ins.op = "POP_EXCEPT" ->
                [MPop(m, 3) EXCEPT !.blocks = Tail(@)]
          [] ins.op = "END_FINALLY" ->
                MRaise([m EXCEPT !.stack = SubSeq(@, 4, Len(@))], st[1])
          [] ins.op = "RAISE_VARARGS" -> MRaise(m0, st[1])
          [] ins.op = "RETURN_VALUE" -> [m EXCEPT !.done = TRUE]
          [] OTHER -> [m EXCEPT !.pc = @ + 1]

RECURSIVE RunCall(_, _, _)
RunCall(m, frm, locals) ==
    IF m.done THEN m ELSE RunCall(MStep(m, frm, locals), frm, locals)

----------------------------------------------------------------------------
(* namespace.__exit__; nsv is the target object self.namespace             *)

\* lines 577-579: bind the as-clause to the target and return retcode
namespace_return(r, nsv, a) ==
    [exc |-> a.exc, ret |-> r.ret, h |-> a.h, t |-> a.t, ns |-> nsv]

\* line 575 has returned or raised: m is the finished call
namespace_called(r, t, nsv, m) ==
    IF m.exc # None
    THEN [exc |-> m.exc, ret |-> FALSE, t |-> t,
          h |-> [r.h EXCEPT !.reads = m.reads, !.lookups = m.lookups],
          ns |-> [nsv EXCEPT !.attrs = m.target]]
    ELSE namespace_return(r, [nsv EXCEPT !.attrs = m.target],
             run_as_clause([r.h EXCEPT !.reads = m.reads, !.lookups = m.lookups],
                           t, NsObj, 1))

\* lines 564-575: splice the replacements in and call the function
namespace_func(r, t, frm, nsv, tr) ==
    IF tr.exc # None
    THEN [exc |-> tr.exc, ret |-> FALSE, t |-> t, h |-> r.h, ns |-> nsv]
    ELSE namespace_called(r, t, nsv,
             RunCall(NewCall(SpliceAll(r.h.bytecode
                                         \o <<Instr("LOAD_CONST", None),
                                              Instr("RETURN_VALUE", None)>>,
                                       tr.list, 1, 0),
                             nsv.attrs, nsv.fails),
                     frm, t.f_locals[r.h.frame]))

\* lines 554-563, on the result r of the superclass __exit__
namespace_rewrite(r, t, frm, nsv) ==
    IF r.exc # None
    THEN [exc |-> r.exc, ret |-> FALSE, t |-> t, h |-> r.h, ns |-> nsv]
    ELSE namespace_func(r, t, frm, nsv,
             ToReplace(r.h.kind,
                       r.h.bytecode \o <<Instr("LOAD_CONST", None),
                                         Instr("RETURN_VALUE", None)>>,
                       1, <<>>))

\* namespace.__exit__(*args), which keyspace inherits
namespace_exit(h, t, frm, exc_type, nsv) ==
    namespace_rewrite(CaptureBytecode_exit(h, t, frm, exc_type), t, frm, nsv)

----------------------------------------------------------------------------
(* The with-statement protocol: which __enter__ and __exit__ the engine    *)
(* calls for a hack of each class.                                         *)

hack_enter(h, t, lasti) ==
    LET r == IF h.kind = "WithHack" THEN WithHack_enter(h, t, 0)
             ELSE CaptureBytecode_enter(h, t, lasti)
    IN  [h |-> [r.h EXCEPT !.state = "entered"], t |-> r.t]

WithNs(r, t, nsv) == [exc |-> r.exc, ret |-> r.ret, h |-> r.h, t |-> t, ns |-> nsv]
KeepNs(r, nsv) == [exc |-> r.exc, ret |-> r.ret, h |-> r.h, t |-> r.t, ns |-> nsv]

hack_exit_of(h, t, frm, exc_type, nsv) ==
    CASE h.kind = "WithHack" ->
            [exc |-> None, ret |-> WithHack_exit(exc_type), t |-> t, ns |-> nsv,
             h |-> [h EXCEPT !.exit_arg = exc_type,
                             !.base_ret = IF WithHack_exit(exc_type)
                                          THEN "True" ELSE "False"]]
      [] h.kind = "CaptureBytecode" ->
            WithNs(CaptureBytecode_exit(h, t, frm, exc_type), t, nsv)
      [] h.kind \in {"CaptureLocals", "CaptureOrderedLocals"} ->
            WithNs(CaptureLocals_exit(h, t, frm, exc_type), t, nsv)
      [] h.kind \in {"xargs", "xkwargs"} ->
            KeepNs(xargs_exit(h, t, frm, exc_type), nsv)
      [] OTHER ->
            namespace_exit(h, t, frm, exc_type, nsv)

Exited(r) == [r EXCEPT !.h.state = "exited"]

hack_exit(h, t, frm, exc_type, nsv) == Exited(hack_exit_of(h, t, frm, exc_type, nsv))

----------------------------------------------------------------------------
(* Spec: one with-statement in the context frame, for every hack class,    *)
(* as-clause, short body and starting state of the hooks.                  *)

Stmts == {Assign("x", "7"), Assign("y", "8"), Copy("y", "x"), Del("x"),
          IfAssign("y", "8"), Raise}

AsClauses == {<<Instr("STORE_FAST", "f")>>, <<Instr("POP_TOP", None)>>}

\* the classes, with the dont_execute and must_execute each one has
HackClasses ==
    {[kind |-> "WithHack", dont_execute |-> d, must_execute |-> m] :
        d \in BOOLEAN, m \in BOOLEAN}
    \cup {[kind |-> "CaptureBytecode", dont_execute |-> TRUE, must_execute |-> FALSE]}
    \cup {[kind |-> k, dont_execute |-> TRUE, must_execute |-> TRUE] :
            k \in LocalsKinds}

\* the context's bindings before the block: c is bound, x may be
StartLocals == {Put(EmptyMap, "c", "False"),
                Put(Put(EmptyMap, "c", "True"), "x", "1")}

\* the hooks before the block: no tracing, or a tracer with its local hook
StartHooks == {None, UserTrace}

NewHack(cls, func_raises) ==
    [kind |-> cls.kind, dont_execute |-> cls.dont_execute,
     must_execute |-> cls.must_execute, state |-> "created", frame |-> None,
     bc_start |-> NoneInt, bytecode |-> <<>>, as_clause |-> <<>>,
     locals |-> <<>>, has_locals |-> FALSE, exit_arg |-> None,
     base_ret |-> None, func_raises |-> func_raises, func_calls |-> <<>>,
     reads |-> <<>>, lookups |-> <<>>, as_exec |-> <<>>, as_stores |-> <<>>]

NewFrame(prog, scopes) ==
    [status |-> "running", source |-> prog.source, code |-> prog.code,
     lines |-> prog.lines,
     f_globals |-> scopes.f_globals, f_builtins |-> scopes.f_builtins,
     body_lo |-> prog.body_lo, body_hi |-> prog.body_hi,
     pc |-> IndexOfOp(prog.code, "SETUP_WITH"), stack |-> <<>>, exc |-> None,
     lastline |-> 1, executed |-> 0, assigned |-> {}, body_exc |-> None,
     exit_exc |-> None]

InitWith(classes, statements, scopes) ==
    /\ \E cls \in classes, as \in AsClauses, stmts \in SeqsUpTo(statements, MaxBody),
          func_raises \in BOOLEAN, sc \in scopes :
          /\ func_raises => cls.kind \in {"xargs", "xkwargs"}
          /\ hack = NewHack(cls, func_raises)
          /\ fr = NewFrame(Program(as, stmts), sc)
    /\ \E l \in StartLocals : f_locals = [f \in Frames |-> IF f = Ctx THEN l ELSE EmptyMap]
    /\ \E h \in StartHooks :
          /\ f_trace = [f \in Frames |-> IF f = Ctx THEN h ELSE None]
          /\ sys_trace = h
    /\ hook0 = f_trace
    /\ sys0 = sys_trace
    /\ orig_trace_funcs = EmptyMap
    /\ injected_trace_funcs = EmptyMap
    /\ orig_sys_trace = None
    /\ calls = <<>>
    /\ nfire = 0
    /\ pending = <<>>
    /\ ninject = 0
    /\ IdlePure

\* the module-level and built-in bindings the context frame sees
NoScopes == {[f_globals |-> EmptyMap, f_builtins |-> EmptyMap]}

Init ==
    /\ InitWith(HackClasses, Stmts, NoScopes)
    /\ ns = [kind |-> "idle"]

Running == fr.status = "running"

\* a line event is due before the instruction at pc, and the frame's hook
\* is the injector's: the engine calls it before it executes the instruction
LineEventDue ==
    /\ fr.lines[fr.pc] # fr.lastline
    /\ HookFires(TraceState, Ctx)

\* the engine executes SETUP_WITH: it calls __enter__ and pushes the result
Enter ==
    /\ Running
    /\ fr.code[fr.pc].op = "SETUP_WITH"
    /\ LET r == hack_enter(hack, TraceState, f_lasti(fr))
       IN  /\ hack' = r.h
           /\ SetTraceState(r.t)
    /\ fr' = Advance(Push(fr, HackObj))
    /\ UNCHANGED <<pending, ninject, hook0, sys0, pureVars, ns>>

\* the engine calls the frame's hook for a new line: _invoke_trace_funcs
TraceLine ==
    /\ Running
    /\ LineEventDue
    /\ LET r == invoke_trace_funcs(TraceState, Ctx)
           f == [fr EXCEPT !.lastline = fr.lines[fr.pc]]
       IN  /\ SetTraceState(r.t)
           /\ fr' = IF r.exc = None THEN f ELSE RaiseIn(f, r.exc)
    /\ pending' = Append(pending, [frame |-> Ctx,
                                   ids |-> IdsOf(injected_trace_funcs[Ctx])])
    /\ UNCHANGED <<ninject, hook0, sys0, pureVars, hack, ns>>

\* the engine executes one instruction of the frame
Step ==
    /\ Running
    /\ fr.code[fr.pc].op \notin {"SETUP_WITH", "WITH_CLEANUP_START"}
    /\ ~LineEventDue
    /\ LET r == ExecInstr(fr, f_locals[Ctx])
       IN  /\ fr' = r.fr
           /\ f_locals' = [f_locals EXCEPT ![Ctx] = r.locals]
    /\ UNCHANGED <<f_trace, orig_trace_funcs, injected_trace_funcs, sys_trace,
                   orig_sys_trace, calls, nfire, pending, ninject, hook0, sys0,
                   pureVars, hack, ns>>

\* the frame after __exit__ gave r: an exception __exit__ raises replaces
\* the one propagating, a true return value swallows it, otherwise it goes on
AfterExit(frm, r) ==
    IF r.exc # None
    THEN [frm EXCEPT !.exit_exc = r.exc, !.exc = r.exc, !.status = "raised"]
    ELSE IF frm.exc # None /\ ~r.ret
    THEN [frm EXCEPT !.status = "raised"]
    ELSE [frm EXCEPT !.exc = None]

ExitWith(r) ==
    /\ hack' = r.h
    /\ ns' = r.ns
    /\ SetTraceState(r.t)
    /\ fr' = AfterExit([fr EXCEPT !.pc = IndexOfOp(fr.code, "END_FINALLY") + 1], r)

\* the engine executes WITH_CLEANUP_START .. END_FINALLY: it calls __exit__
\* with the exception that is propagating, if any
Exit ==
    /\ Running
    /\ fr.code[fr.pc].op = "WITH_CLEANUP_START"
    /\ ExitWith(hack_exit(hack, TraceState, fr, fr.exc, ns))
    /\ UNCHANGED <<pending, ninject, hook0, sys0, pureVars>>

Next == Enter \/ TraceLine \/ Step \/ Exit

Spec == Init /\ [][Next]_vars

SkipRequested == hack.dont_execute /\ ~hack.must_execute

ExitContextPending ==
    /\ Ctx \in DOMAIN injected_trace_funcs
    /\ \E i \in 1..Len(injected_trace_funcs[Ctx]) :
          injected_trace_funcs[Ctx][i].kind = "exit_context"

C2_ExitSwallowsOnlySentinel ==
    hack.base_ret # None =>
        /\ hack.base_ret = "True" <=> hack.exit_arg = ExitContextExc
        /\ fr.exit_exc = None =>
              IF hack.exit_arg = ExitContextExc
              THEN fr.exc = None /\ fr.status # "raised"
              ELSE /\ fr.exc = hack.exit_arg
                   /\ hack.exit_arg # None => fr.status = "raised"

\* the base __exit__ was given an exception of the body and let it go on
C2_Witness ==
    /\ hack.kind = "WithHack"
    /\ hack.exit_arg = "ValueError"
    /\ hack.base_ret = "False"
    /\ fr.status = "raised"
    /\ fr.exc = "ValueError"

(* C3: for CaptureLocals, CaptureOrderedLocals, xargs and xkwargs, an      *)
(* exception raised by the body at any point goes on unchanged out of the  *)
(* with-statement: __exit__ raises nothing in its place.                   *)
C3_BodyExcPropagates ==
    (hack.kind \in LocalsKinds /\ hack.state = "exited" /\ fr.body_exc # None) =>
        /\ fr.exit_exc = None
        /\ fr.status = "raised"
        /\ fr.exc = fr.body_exc

(* C7: after a CaptureLocals block exits, the keys of locals are exactly   *)
(* the names the block assigned, each with the value bound to it in the    *)
(* context at block exit; the as-name is not among them unless the body    *)
(* assigns it.  For bodies of assignments, deletions and branches.         *)
C7_LocalsAreAssigned ==
    (hack.kind \in LocalsKinds /\ hack.state = "exited" /\ fr.body_exc = None) =>
        /\ hack.has_locals
        /\ KeysOf(hack.locals) = fr.assigned
        /\ \A i \in 1..Len(hack.locals) :
              /\ hack.locals[i][1] \in DOMAIN f_locals[Ctx]
              /\ hack.locals[i][2] = f_locals[Ctx][hack.locals[i][1]]



XargsKinds == {"xargs", "xkwargs"}

\* the with-statement has a simple name as its as-target
SimpleAsName == \E i \in 1..Len(fr.code) :
                    /\ i < fr.body_lo
                    /\ fr.code[i] = Instr("STORE_FAST", "f")

\* the callback of _set_context_locals has been invoked
UpdateInvoked == \E i \in 1..Len(calls) : calls[i].kind = "update"

UpdatePending ==
    /\ Ctx \in DOMAIN injected_trace_funcs
    /\ \E i \in 1..Len(injected_trace_funcs[Ctx]) :
          /\ injected_trace_funcs[Ctx][i].kind = "update"
          /\ injected_trace_funcs[Ctx][i].locals = Put(EmptyMap, "f", "retval")

----------------------------------------------------------------------------
(* SpecNamespace: one with-statement on a namespace or keyspace hack, for  *)
(* every short body of stores, reads and deletions, every starting content *)
(* of the target and every set of bindings of the enclosing scopes.        *)

NsKinds == {"namespace", "keyspace"}
NsClasses == {[kind |-> k, dont_execute |-> TRUE, must_execute |-> FALSE] :
                 k \in NsKinds}

NsStmts == {Assign("x", "7"), Assign("y", "8"), Copy("y", "x"), Del("x")}

NsScopes == {[f_globals |-> g, f_builtins |-> b] :
                g \in {EmptyMap, Put(EmptyMap, "x", "g")},
                b \in {EmptyMap, Put(EmptyMap, "x", "b")}}

\* the target: what it holds, and the names whose load fails with an error
\* of its own (neither AttributeError nor KeyError)
NsTargets == {[kind |-> "target", attrs |-> a, attrs0 |-> a, fails |-> f] :
                 a \in {EmptyMap, Put(EmptyMap, "x", "t")},
                 f \in {{}, {"x"}}}

InitNamespace ==
    /\ InitWith(NsClasses, NsStmts, NsScopes)
    /\ ns \in NsTargets

SpecNamespace == InitNamespace /\ [][Next]_vars

\* What the block means, statement by statement: a store or a deletion
\* acts on the target, a read takes the target's value, else the context's
\* local, module-level or built-in binding.
ReadOf(target, fails, n) ==
    IF n \in fails THEN [exc |-> "TargetError", value |-> None, fallback |-> FALSE]
    ELSE IF n \in DOMAIN target
    THEN [exc |-> None, value |-> target[n], fallback |-> FALSE]
    ELSE IF n \in DOMAIN f_locals[Ctx]
    THEN [exc |-> None, value |-> f_locals[Ctx][n], fallback |-> TRUE]
    ELSE IF n \in DOMAIN fr.f_globals
    THEN [exc |-> None, value |-> fr.f_globals[n], fallback |-> TRUE]
    ELSE IF n \in DOMAIN fr.f_builtins
    THEN [exc |-> None, value |-> fr.f_builtins[n], fallback |-> TRUE]
    ELSE [exc |-> "NameError", value |-> None, fallback |-> TRUE]

AfterRead(e, n, rd) ==
    [e EXCEPT !.exc = rd.exc,
              !.lookups = IF rd.fallback THEN Append(@, rd.n) ELSE @,
              !.reads = IF rd.exc = None THEN Append(@, rd.value) ELSE @,
              !.target = IF rd.exc = None THEN Put(@, n, rd.value) ELSE @]

Named(rd, n) == [exc |-> rd.exc, value |-> rd.value, fallback |-> rd.fallback, n |-> n]

Effect(e, s, kind, fails) ==
    CASE s.k = "assign" -> [e EXCEPT !.target = Put(@, s.n, s.v)]
      [] s.k = "copy"   -> AfterRead(e, s.n, Named(ReadOf(e.target, fails, s.v), s.v))
      [] s.k = "del"    -> IF s.n \in DOMAIN e.target
                           THEN [e EXCEPT !.target = Remove(@, s.n)]
                           ELSE [e EXCEPT !.exc = ns_exc(kind)]
      [] OTHER          -> e

RECURSIVE Meaning(_, _, _, _, _)
Meaning(stmts, i, e, kind, fails) ==
    IF i > Len(stmts) \/ e.exc # None THEN e
    ELSE Meaning(stmts, i + 1, Effect(e, stmts[i], kind, fails), kind, fails)

Expected ==
    Meaning(fr.source, 1,
            [target |-> ns.attrs0, exc |-> None, reads |-> <<>>, lookups |-> <<>>],
            hack.kind, ns.fails)

(* C9: in a namespace or keyspace block the writes go to the target: after *)
(* the block the target holds its starting contents with the block's       *)
(* stores and deletions applied in program order (up to the statement that *)
(* raised, if one did), a read of a name written earlier gives the written *)
(* value, and the context's own bindings are as before the block apart     *)
(* from the as-clause name.                                                *)
C9_WritesCaptured ==
    hack.kind \in NsKinds =>
        /\ Remove(f_locals[Ctx], "f") \in StartLocals
        /\ hack.state # "exited" => ns.attrs = ns.attrs0
        /\ hack.state = "exited" => ns.attrs = Expected.target

\* a read, a store and a deletion have all reached the target
C9_Witness ==
    /\ hack.kind = "keyspace"
    /\ hack.state = "exited"
    /\ fr.status = "returned"
    /\ "x" \in DOMAIN ns.attrs0
    /\ ns.attrs = Put(EmptyMap, "y", "t")
    /\ "f" \in DOMAIN f_locals[Ctx] /\ f_locals[Ctx]["f"] = NsObj

(* C10: a read of n gives the target's value when the target has n; when   *)
(* the target's load fails with AttributeError (KeyError for keyspace) it  *)
(* gives the context's local binding, else the module-level one, else the  *)
(* built-in one, and raises NameError when there is none; any other        *)
(* failure of the target's load goes on out and load_name is not called.   *)
C10_ReadFallback ==
    (hack.kind \in NsKinds /\ hack.state = "exited") =>
        /\ hack.reads = Expected.reads
        /\ hack.lookups = Expected.lookups
        /\ fr.exit_exc = Expected.exc

\* a read the target could not serve was found in the built-in bindings
C10_Witness ==
    /\ hack.kind = "namespace"
    /\ hack.state = "exited"
    /\ hack.lookups = <<"x">>
    /\ hack.reads = <<"b">>
    /\ "y" \in DOMAIN ns.attrs /\ ns.attrs["y"] = "b"


----------------------------------------------------------------------------
(* SpecAsClause: _run_as_clause(value) called from an __exit__, for the    *)
(* as-clauses the scan of CaptureBytecode.__exit__ leaves for the targets  *)
(* of a with-statement, followed by the context's next hook firing.        *)

\* as-clauses by target: none, f (local, module-level), d.a, d[k], d.a[k]
\* with d local or module-level, and the tuple targets (f, g) and (d.a, f),
\* which the scan cuts after their first store
AsTargets ==
    {<<Instr("POP_TOP", None)>>,
     <<Instr("STORE_FAST", "f")>>,
     <<Instr("STORE_NAME", "f")>>,
     <<Instr("UNPACK_SEQUENCE", "2"), Instr("STORE_FAST", "f")>>,
     <<Instr("UNPACK_SEQUENCE", "2"), Instr("STORE_NAME", "f")>>}
    \cup UNION {{<<Instr(ld, "d"), Instr("STORE_ATTR", "a")>>,
                 <<Instr(ld, "d"), Instr("LOAD_CONST", "k"),
                   Instr("STORE_SUBSCR", None)>>,
                 <<Instr(ld, "d"), Instr("LOAD_ATTR", "a"), Instr("LOAD_CONST", "k"),
                   Instr("STORE_SUBSCR", None)>>,
                 <<Instr("UNPACK_SEQUENCE", "2"), Instr(ld, "d"),
                   Instr("STORE_ATTR", "a")>>} : ld \in {"LOAD_FAST", "LOAD_NAME"}}

AsLocals == {l \in [{"d", "f"} -> {"obj", "old", "unbound"}] :
                l["d"] \in {"obj", "unbound"} /\ l["f"] \in {"old", "unbound"}}
Bound(l) == [n \in {m \in DOMAIN l : l[m] # "unbound"} |-> l[n]]

AsValues == {"retval", NsObj}

InitAsClause ==
    /\ \E as \in AsTargets, k \in XargsKinds \cup NsKinds,
          l \in AsLocals, v \in AsValues :
          /\ hack = [NewHack([kind |-> k, dont_execute |-> TRUE,
                              must_execute |-> k \in LocalsKinds], FALSE)
                        EXCEPT !.as_clause = as, !.state = "in __exit__"]
          /\ fr = [status |-> "in __exit__", value |-> v, locals0 |-> Bound(l),
                   exc |-> None]
          /\ f_locals = [f \in Frames |-> IF f = Ctx THEN Bound(l) ELSE EmptyMap]
    /\ \E h \in StartHooks :
          /\ f_trace = [f \in Frames |-> IF f = Ctx THEN h ELSE None]
          /\ sys_trace = h
    /\ hook0 = f_trace
    /\ sys0 = sys_trace
    /\ orig_trace_funcs = EmptyMap
    /\ injected_trace_funcs = EmptyMap
    /\ orig_sys_trace = None
    /\ calls = <<>>
    /\ nfire = 0
    /\ pending = <<>>
    /\ ninject = 0
    /\ IdlePure
    /\ ns = [kind |-> "idle"]

RanAsClause(r) ==
    /\ hack' = [r.h EXCEPT !.state = "exited"]
    /\ SetTraceState(r.t)
    /\ fr' = [fr EXCEPT !.status = "resumed", !.exc = r.exc]

\* the __exit__ of the hack calls self._run_as_clause(value) and ends
RunAsClause ==
    /\ fr.status = "in __exit__"
    /\ RanAsClause(run_as_clause(hack, TraceState, fr.value, 1))
    /\ UNCHANGED <<pending, ninject, hook0, sys0, pureVars, ns>>

HookRan(r) ==
    /\ SetTraceState(r.t)
    /\ fr' = [fr EXCEPT !.status = "traced"]

\* the context frame goes on and the engine calls its hook
HookAfterAsClause ==
    /\ fr.status = "resumed"
    /\ fr.exc = None
    /\ HookFires(TraceState, Ctx)
    /\ HookRan(invoke_trace_funcs(TraceState, Ctx))
    /\ UNCHANGED <<pending, ninject, hook0, sys0, pureVars, hack, ns>>

NextAsClause == RunAsClause \/ HookAfterAsClause

SpecAsClause == InitAsClause /\ [][NextAsClause]_vars

HasLocalStore == \E i \in 1..Len(hack.as_clause) : hack.as_clause[i].op = "STORE_FAST"

\* _run_as_clause has left the context, the injector and the hack as they were
NothingDone ==
    /\ f_locals[Ctx] = fr.locals0
    /\ injected_trace_funcs = EmptyMap
    /\ orig_trace_funcs = EmptyMap
    /\ f_trace = hook0 /\ sys_trace = sys0
    /\ calls = <<>>
    /\ hack.as_exec = <<>>
    /\ hack.as_stores = <<>>

(* C12: _run_as_clause on an as-clause of more than one instruction that   *)
(* holds a STORE_FAST raises NotImplementedError and has done nothing: no  *)
(* callback injected, no binding of the context changed, no synthesized    *)
(* code executed.  On a single POP_TOP it returns and has done nothing.    *)
C12_UnsupportedTargetNoEffect ==
    hack.state = "exited" =>
        /\ (Len(hack.as_clause) > 1 /\ HasLocalStore) =>
              (fr.exc = "NotImplementedError" /\ NothingDone)
        /\ hack.as_clause = <<Instr("POP_TOP", None)>> =>
              (fr.exc = None /\ NothingDone)

\* the tuple target (f, g) has been refused
C12_Witness ==
    /\ hack.state = "exited"
    /\ hack.as_clause = <<Instr("UNPACK_SEQUENCE", "2"), Instr("STORE_FAST", "f")>>
    /\ fr.exc = "NotImplementedError"
    /\ fr.locals0 = Put(EmptyMap, "f", "old")
    /\ f_locals[Ctx] = fr.locals0


----------------------------------------------------------------------------
(* SpecThreads: one thread calling inject_trace_func and one thread in     *)
(* which the hook of a frame fires, each step of theirs taken at a         *)
(* statement that reads or writes the shared tables or the lock.           *)
(*   inject_trace_func: acquire (59), lines 60-65 and release, line 66     *)
(*   _invoke_trace_funcs: one callback of the loop (77-78), line 80,       *)
(*   acquire (81), lines 82-84 and release                                 *)

InitThreads ==
    /\ f_trace \in [Frames -> {None, UserTrace}]
    /\ sys_trace \in {None, UserTrace}
    /\ hook0 = f_trace
    /\ sys0 = sys_trace
    /\ f_locals = [f \in Frames |-> EmptyMap]
    /\ orig_trace_funcs = EmptyMap
    /\ injected_trace_funcs = EmptyMap
    /\ orig_sys_trace = None
    /\ calls = <<>>
    /\ nfire = 0
    /\ pending = <<>>
    /\ ninject = 0
    /\ ex = [pc |-> "idle"]
    /\ lk = [pc |-> "idle"]
    /\ IdleWith
    /\ th = [lock |-> None,
             ipc |-> "idle", iframe |-> None, ifunc |-> None, ierr |-> None,
             dpc |-> "idle", dframe |-> None, di |-> 0, derr |-> None]

ThreadsRest == <<pending, hook0, sys0, ex, lk, withVars>>

\* a thread calls inject_trace_func(frame, func)
InjCall(frame) ==
    /\ th.ipc = "idle"
    /\ ninject < MaxInject
    /\ ninject' = ninject + 1
    /\ th' = [th EXCEPT !.ipc = "acquire", !.iframe = frame,
                        !.ifunc = Callback("update", ninject + 1, EmptyMap, frame)]
    /\ UNCHANGED <<f_trace, f_locals, orig_trace_funcs, injected_trace_funcs,
                   sys_trace, orig_sys_trace, calls, nfire, ThreadsRest>>

\* line 59: with _trace_lock
InjAcquire ==
    /\ th.ipc = "acquire"
    /\ th.lock = None
    /\ th' = [th EXCEPT !.lock = "inj", !.ipc = "locked"]
    /\ UNCHANGED <<f_trace, f_locals, orig_trace_funcs, injected_trace_funcs,
                   sys_trace, orig_sys_trace, calls, nfire, ninject, ThreadsRest>>

\* lines 60-65, and the lock is released
InjSetup ==
    /\ th.ipc = "locked"
    /\ SetTraceState(inject_setup(TraceState, th.iframe))
    /\ th' = [th EXCEPT !.lock = None, !.ipc = "append"]
    /\ UNCHANGED <<ninject, ThreadsRest>>

\* line 66: _injected_trace_funcs[frame].append(func)
InjAppend ==
    /\ th.ipc = "append"
    /\ IF th.iframe \in DOMAIN injected_trace_funcs
       THEN /\ SetTraceState(inject_append(TraceState, th.iframe, th.ifunc))
            /\ th' = [th EXCEPT !.ipc = "idle"]
       ELSE /\ th' = [th EXCEPT !.ipc = "idle", !.ierr = "KeyError"]
            /\ UNCHANGED <<f_trace, f_locals, orig_trace_funcs,
                           injected_trace_funcs, sys_trace, orig_sys_trace,
                           calls, nfire>>
    /\ UNCHANGED <<ninject, ThreadsRest>>

\* the engine calls the hook of frame in the thread that runs it
DrnCall(frame) ==
    /\ th.dpc = "idle"
    /\ HookFires(TraceState, frame)
    /\ nfire' = nfire + 1
    /\ th' = [th EXCEPT !.dpc = "loop", !.dframe = frame, !.di = 1]
    /\ UNCHANGED <<f_trace, f_locals, orig_trace_funcs, injected_trace_funcs,
                   sys_trace, orig_sys_trace, calls, ninject, ThreadsRest>>

DrnCalled(r) ==
    /\ SetTraceState(r.t)
    /\ th' = IF r.exc # None THEN [th EXCEPT !.dpc = "del", !.derr = r.exc]
             ELSE [th EXCEPT !.di = @ + 1]

\* lines 77-78: the next callback of the list, or the end of the loop
DrnLoop ==
    /\ th.dpc = "loop"
    /\ IF th.di <= Len(injected_trace_funcs[th.dframe])
       THEN DrnCalled(CallFunc(TraceState,
                               injected_trace_funcs[th.dframe][th.di], th.dframe))
       ELSE /\ th' = [th EXCEPT !.dpc = "del"]
            /\ UNCHANGED <<f_trace, f_locals, orig_trace_funcs,
                           injected_trace_funcs, sys_trace, orig_sys_trace,
                           calls, nfire>>
    /\ UNCHANGED <<ninject, ThreadsRest>>

\* line 80: del _injected_trace_funcs[frame]
DrnDel ==
    /\ th.dpc = "del"
    /\ injected_trace_funcs' = Remove(injected_trace_funcs, th.dframe)
    /\ th' = [th EXCEPT !.dpc = "acquire"]
    /\ UNCHANGED <<f_trace, f_locals, orig_trace_funcs, sys_trace,
                   orig_sys_trace, calls, nfire, ninject, ThreadsRest>>

\* line 81: with _trace_lock
DrnAcquire ==
    /\ th.dpc = "acquire"
    /\ th.lock = None
    /\ th' = [th EXCEPT !.lock = "drn", !.dpc = "locked"]
    /\ UNCHANGED <<f_trace, f_locals, orig_trace_funcs, injected_trace_funcs,
                   sys_trace, orig_sys_trace, calls, nfire, ninject, ThreadsRest>>

\* lines 82-84, and the lock is released
DrnRestore ==
    /\ th.dpc = "locked"
    /\ SetTraceState(invoke_restore(TraceState, th.dframe))
    /\ th' = [th EXCEPT !.lock = None, !.dpc = "idle"]
    /\ UNCHANGED <<ninject, ThreadsRest>>

NextThreads ==
    \/ \E f \in Frames : InjCall(f)
    \/ InjAcquire
    \/ InjSetup
    \/ InjAppend
    \/ \E f \in Frames : DrnCall(f)
    \/ DrnLoop
    \/ DrnDel
    \/ DrnAcquire
    \/ DrnRestore

SpecThreads == InitThreads /\ [][NextThreads]_vars

\* the callbacks whose inject_trace_func call has returned
Injected == 1..(IF th.ipc = "idle" THEN ninject ELSE ninject - 1)

Invoked == {calls[i].id : i \in 1..Len(calls)}

Waiting == UNION {{injected_trace_funcs[f][i].id :
                      i \in 1..Len(injected_trace_funcs[f])} :
                  f \in DOMAIN injected_trace_funcs}

----------------------------------------------------------------------------
(* SpecNested: two with-statements of the context frame, one inside the    *)
(* other, each with a WithHack of its own:                                 *)
(*     with h1:            or      with h1, h2:                            *)
(*         with h2:                    body                                *)
(*             body                                                        *)
(* hack is the pair of hacks and fr.blocks the with-blocks the frame is    *)
(* in, outermost first.  fr.pc: 1 and 2 enter h1 and h2, 3 is the body, 4  *)
(* and 5 leave h2 and h1, 6 is after the statement.                        *)

NestLayouts == {"lines", "oneline"}
NestBodies == {"assign", "raise"}
BaseClasses == {[kind |-> "WithHack", dont_execute |-> d, must_execute |-> m] :
                   d \in BOOLEAN, m \in BOOLEAN}

InitNested ==
    /\ \E c1 \in BaseClasses, c2 \in BaseClasses :
          hack = <<NewHack(c1, FALSE), NewHack(c2, FALSE)>>
    /\ \E l \in NestLayouts, b \in NestBodies :
          fr = [status |-> "running", layout |-> l, body |-> b, pc |-> 1,
                lastline |-> 1, exc |-> None, blocks |-> <<>>, executed |-> 0]
    /\ ns = [kind |-> "idle"]
    /\ f_locals = [f \in Frames |-> EmptyMap]
    /\ \E h \in StartHooks :
          /\ f_trace = [f \in Frames |-> IF f = Ctx THEN h ELSE None]
          /\ sys_trace = h
    /\ hook0 = f_trace
    /\ sys0 = sys_trace
    /\ orig_trace_funcs = EmptyMap
    /\ injected_trace_funcs = EmptyMap
    /\ orig_sys_trace = None
    /\ calls = <<>>
    /\ nfire = 0
    /\ pending = <<>>
    /\ ninject = 0
    /\ IdlePure

NestRest == <<pending, ninject, hook0, sys0, pureVars, ns>>

\* the source line of the statement at pc; leaving a block starts no line
NestLineOf(frm, pc) ==
    IF pc = 1 THEN 1
    ELSE IF pc = 2 THEN (IF frm.layout = "oneline" THEN 1 ELSE 2)
    ELSE IF frm.layout = "oneline" THEN 2 ELSE 3

NestLineDue ==
    /\ NestLineOf(fr, fr.pc) # fr.lastline
    /\ HookFires(TraceState, Ctx)

\* an exception in the frame goes to the __exit__ of the innermost block
NestRaise(frm, exc) ==
    IF frm.blocks = <<>> THEN [frm EXCEPT !.exc = exc, !.status = "raised"]
    ELSE [frm EXCEPT !.exc = exc, !.pc = 6 - Len(frm.blocks)]

\* SETUP_WITH of h1 or h2: __enter__ is called, the block is entered
NestEnter ==
    /\ Running
    /\ fr.pc \in {1, 2}
    /\ ~NestLineDue
    /\ LET r == hack_enter(hack[fr.pc], TraceState, 0)
       IN  /\ hack' = [hack EXCEPT ![fr.pc] = r.h]
           /\ SetTraceState(r.t)
    /\ fr' = [fr EXCEPT !.blocks = Append(@, fr.pc), !.pc = @ + 1]
    /\ UNCHANGED NestRest

\* the engine calls the frame's hook for a new line
NestLine ==
    /\ Running
    /\ fr.pc \in {2, 3}
    /\ NestLineDue
    /\ LET r == invoke_trace_funcs(TraceState, Ctx)
           f == [fr EXCEPT !.lastline = NestLineOf(fr, fr.pc)]
       IN  /\ SetTraceState(r.t)
           /\ fr' = IF r.exc = None THEN f ELSE NestRaise(f, r.exc)
    /\ UNCHANGED <<NestRest, hack>>

\* the statement of the body
NestBody ==
    /\ Running
    /\ fr.pc = 3
    /\ ~NestLineDue
    /\ fr' = IF fr.body = "raise" THEN NestRaise(fr, "ValueError")
             ELSE [fr EXCEPT !.executed = @ + 1, !.pc = 4]
    /\ UNCHANGED <<traceVars, hook0, sys0, pureVars, ns, hack>>

\* the frame after the __exit__ of its innermost block gave r
NestAfterExit(frm, r) ==
    LET f == [frm EXCEPT !.blocks = SubSeq(@, 1, Len(@) - 1)]
    IN  IF frm.exc # None /\ ~r.ret THEN NestRaise(f, frm.exc)
        ELSE IF frm.pc = 5 THEN [f EXCEPT !.exc = None, !.pc = 6, !.status = "returned"]
        ELSE [f EXCEPT !.exc = None, !.pc = 5]

NestExited(i, r) ==
    /\ hack' = [hack EXCEPT ![i] = r.h]
    /\ SetTraceState(r.t)
    /\ fr' = NestAfterExit(fr, r)

\* WITH_CLEANUP_START .. END_FINALLY of the innermost block: __exit__ is
\* called with the exception that is propagating, if any
NestExit ==
    /\ Running
    /\ fr.pc \in {4, 5}
    /\ NestExited(6 - fr.pc, hack_exit(hack[6 - fr.pc], TraceState, fr, fr.exc, ns))
    /\ UNCHANGED NestRest

NextNested == NestEnter \/ NestLine \/ NestBody \/ NestExit

SpecNested == InitNested /\ [][NextNested]_vars

\* the sessions of the frame: hacks entered and not yet exited
ActiveSessions == {i \in 1..2 : hack[i].state = "entered"}

----------------------------------------------------------------------------
(* SpecSplit: one with-statement of a CaptureBytecode, for as-targets that *)
(* are absent, a name, an attribute of a name and an attribute of a        *)
(* conditional expression, and for bodies that hold branches and loops.    *)

\* as f / no as / as d.a / as (a if c else b).x
SplitAsClauses ==
    {<<Instr("STORE_FAST", "f")>>,
     <<Instr("POP_TOP", None)>>,
     <<Instr("LOAD_FAST", "d"), Instr("STORE_ATTR", "a")>>,
     <<Instr("LOAD_FAST", "c"), Instr("POP_JUMP_IF_FALSE", "A1"),
       Instr("LOAD_FAST", "a"), Instr("JUMP_FORWARD", "A2"),
       Label("A1"), Instr("LOAD_FAST", "b"),
       Label("A2"), Instr("STORE_ATTR", "x")>>}

SplitStmts == {Assign("x", "7"), IfAssign("y", "8"), While}

SplitLocals ==
    {[n \in {"a", "b", "c", "d"} |-> IF n = "c" THEN c ELSE "obj"] :
        c \in {"True", "False"}}

InitSplit ==
    /\ \E as \in SplitAsClauses, stmts \in SeqsUpTo(SplitStmts, MaxBody) :
          /\ hack = NewHack([kind |-> "CaptureBytecode", dont_execute |-> TRUE,
                             must_execute |-> FALSE], FALSE)
          /\ fr = NewFrame(Program(as, stmts),
                           [f_globals |-> EmptyMap, f_builtins |-> EmptyMap])
    /\ \E l \in SplitLocals : f_locals = [f \in Frames |-> IF f = Ctx THEN l ELSE EmptyMap]
    /\ \E h \in StartHooks :
          /\ f_trace = [f \in Frames |-> IF f = Ctx THEN h ELSE None]
          /\ sys_trace = h
    /\ hook0 = f_trace
    /\ sys0 = sys_trace
    /\ orig_trace_funcs = EmptyMap
    /\ injected_trace_funcs = EmptyMap
    /\ orig_sys_trace = None
    /\ calls = <<>>
    /\ nfire = 0
    /\ pending = <<>>
    /\ ninject = 0
    /\ IdlePure
    /\ ns = [kind |-> "idle"]

SpecSplit == InitSplit /\ [][Next]_vars

\* the range __exit__ extracts: from the offset __enter__ recorded to the
\* offset of the instruction that calls __exit__
ExtractedRange ==
    extract_code(ConcreteSizes(fr.code), fr.code, hack.bc_start,
                 WordSize * AtBefore(fr.code,
                                     IndexOfOp(fr.code, "WITH_CLEANUP_START") - 1))

IsOp(b, ops) == IsInstr(b) /\ b.op \in ops

\* the first setup marker, the first store or discard after it, and the
\* last teardown marker of the range bc
FirstSetup(bc) ==
    CHOOSE i \in 1..Len(bc) :
        /\ IsOp(bc[i], {"SETUP_WITH"})
        /\ \A j \in 1..(i - 1) : ~IsOp(bc[j], {"SETUP_WITH"})

FirstStore(bc) ==
    CHOOSE i \in (FirstSetup(bc) + 1)..Len(bc) :
        /\ IsOp(bc[i], StoreOps \cup {"POP_TOP"})
        /\ \A j \in (FirstSetup(bc) + 1)..(i - 1) :
               ~IsOp(bc[j], StoreOps \cup {"POP_TOP"})

LastTeardown(bc) ==
    CHOOSE i \in 1..Len(bc) :
        /\ IsOp(bc[i], {"POP_BLOCK"})
        /\ \A j \in (i + 1)..Len(bc) : ~IsOp(bc[j], {"POP_BLOCK"})

SplitAsClaimed(bc) ==
    /\ fr.exit_exc = None
    /\ hack.as_clause = SubSeq(bc, FirstSetup(bc) + 1, FirstStore(bc))
    /\ hack.bytecode = SubSeq(bc, FirstStore(bc) + 1, LastTeardown(bc) - 1)

(* C15: once CaptureBytecode.__exit__ has run, the as-clause is the        *)
(* instructions after the first SETUP_WITH of the extracted range up to    *)
(* and including the first store or discard, and the stored body is the    *)
(* instructions after that up to the last POP_BLOCK, so the two together   *)
(* are what lies strictly between the two markers, in order.               *)
C15_SplitBetweenMarkers ==
    hack.state = "exited" => SplitAsClaimed(ExtractedRange)

----------------------------------------------------------------------------
(* SpecTrace: any sequence of injections and hook firings over the frames. *)

InitTrace ==
    /\ f_trace \in [Frames -> {None, UserTrace}]
    /\ sys_trace \in {None, UserTrace}
    /\ hook0 = f_trace
    /\ sys0 = sys_trace
    /\ f_locals = [f \in Frames |-> EmptyMap]
    /\ orig_trace_funcs = EmptyMap
    /\ injected_trace_funcs = EmptyMap
    /\ orig_sys_trace = None
    /\ calls = <<>>
    /\ nfire = 0
    /\ pending = <<>>
    /\ ninject = 0
    /\ IdlePure
    /\ IdleWith

\* some code calls inject_trace_func(frame, func)
Inject(frame, kind, target) ==
    /\ ninject < MaxInject
    /\ SetTraceState(inject_trace_func(TraceState, frame,
            Callback(kind, ninject + 1, EmptyMap, target)))
    /\ ninject' = ninject + 1
    /\ UNCHANGED <<pending, hook0, sys0, pureVars, withVars>>

\* the engine's hook fires for frame: the whole of _invoke_trace_funcs
Fire(frame) ==
    /\ HookFires(TraceState, frame)
    /\ SetTraceState(invoke_trace_funcs(TraceState, frame).t)
    /\ pending' = Append(pending, [frame |-> frame,
                                   ids |-> IdsOf(injected_trace_funcs[frame])])
    /\ UNCHANGED <<ninject, hook0, sys0, pureVars, withVars>>

NextTrace ==
    \/ \E f \in Frames, k \in {"exit_context", "update", "reinject"},
          g \in Frames : Inject(f, k, g)
    \/ \E f \in Frames : Fire(f)

SpecTrace == InitTrace /\ [][NextTrace]_vars

\* the ids of the callbacks invoked during firing n, in order of invocation
InvokedIn(n) ==
    LET cs == SelectSeq(calls, LAMBDA c : c.firing = n)
    IN  [i \in 1..Len(cs) |-> cs[i].id]

IsPrefix(p, s) == Len(p) <= Len(s) /\ SubSeq(s, 1, Len(p)) = p

(* C4: on a hook firing for a context, every callback injected before the  *)
(* firing is invoked exactly once, with the context as argument, in order  *)
(* of injection, whatever an earlier callback does (raising included), and *)
(* no callback is invoked on a later firing.                               *)
C4_AllInvokedInOrder ==
    /\ \A n \in 1..nfire :
          /\ IsPrefix(pending[n].ids, InvokedIn(n))
          /\ \A i \in 1..Len(calls) :
                calls[i].firing = n => calls[i].frame = pending[n].frame
    /\ \A i, j \in 1..Len(calls) : calls[i].id = calls[j].id => i = j

(* C5: a drained context has its original hook back and no entry in either *)
(* table; global tracing is on exactly while the tables are non-empty,     *)
(* and a global trace function that was there before is never replaced.    *)
C5_DrainRestores ==
    /\ \A f \in Frames :
          f \notin DOMAIN injected_trace_funcs =>
              /\ f_trace[f] = hook0[f]
              /\ f \notin DOMAIN orig_trace_funcs
    /\ DOMAIN injected_trace_funcs = DOMAIN orig_trace_funcs
    /\ DOMAIN orig_trace_funcs = {} => sys_trace = sys0
    /\ DOMAIN orig_trace_funcs # {} =>
          sys_trace = (IF sys0 = None THEN DummySysTrace ELSE sys0)

\* a context with a hook of its own was drained by a firing in which a
\* callback raised, while another context still has undrained callbacks
C5_Witness ==
    \E f \in Frames :
        /\ hook0[f] = UserTrace
        /\ f \notin DOMAIN injected_trace_funcs
        /\ \E i \in 1..Len(calls) :
              calls[i].frame = f /\ calls[i].kind = "exit_context"
        /\ DOMAIN injected_trace_funcs # {}

====
